----------------------------- MODULE MCShopChat -----------------------------
(***************************************************************************)
(* ShopChat for TLC: three messages that a process remembering only two    *)
(* updates receives, with one fault somewhere. A text and a voice message  *)
(* share the buffer or overlap as two bursts, while /start pushes one of   *)
(* them out of the memory; a photo and /start only share the row.          *)
(***************************************************************************)
EXTENDS ShopChat

MCMessages == 1..3
MCKinds == {<<"text", "voice", "start">>, <<"text", "photo", "start">>}
=============================================================================
