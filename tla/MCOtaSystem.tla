---------------------------- MODULE MCOtaSystem ----------------------------
(***************************************************************************)
(* Small instances of OtaSystem for TLC.  Files of one, two and three      *)
(* chunks, no two of which have the same chunk in the same place.          *)
(***************************************************************************)
EXTENDS OtaSystem

CONSTANTS v0, v1, v2, v3

Contents == {<<0>>, <<1, 2>>, <<2, 0, 1>>}

ShortFiles == [content : Contents, short : {TRUE}, format : {TRUE}]
WholeFiles == [content : Contents, short : {FALSE}, format : {TRUE}]
OneChunk == [content : {<<0>>, <<1>>}, short : {TRUE}, format : {TRUE}]

OneTap == <<v1>>
TwoTaps == <<v1, v2>>
ThreeTaps == <<v1, v2, v3>>
=============================================================================
