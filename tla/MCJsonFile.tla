----------------------------- MODULE MCJsonFile -----------------------------
(* Small instance of JsonFile.  Numbers are in hundredths and written with *)
(* two digits: -123.45 is written as -1.2e+02, and read as -120.           *)
EXTENDS JsonFile

MCKeys == {<<<<"a">>>>, <<<<"b">>>>}

\* A string with white space inside, and one with white space at the end.
MCLeaves == {Null, Bool(FALSE), Number(-12345),
             String(<<<<"a">>, <<"blank">>, <<"b">>>>),
             String(<<<<"a">>, <<"blank">>>>)}
=============================================================================
