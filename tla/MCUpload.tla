------------------------------ MODULE MCUpload ------------------------------
(* Upload on three parts, one URL a batch, and three files of one name and size. *)
EXTENDS Upload

File(p, m) == [parts |-> p, modified |-> m]
MCOriginal == File(<<"a1", "a2", "a3">>, "monday")
MCFirst == File(<<"b1", "a2", "a3">>, "wednesday")
MCLast == File(<<"a1", "a2", "b3">>, "thursday")
MCOthers == {MCFirst, MCLast}
=============================================================================
