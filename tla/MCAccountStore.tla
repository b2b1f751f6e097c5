--------------------------- MODULE MCAccountStore ---------------------------
(* The constants of the account-store models. *)
EXTENDS AccountStore

\* The shorter password leaves a character of the longer one behind its NUL.
Fisix == <<"f", "i", "s">>
TwoPasswords == {Fisix, <<"x">>}

Fi == <<"f", "i">>
ShortPasswords == {Fi, <<"x">>}

InBlock(b) == [name |-> b, password |-> [k \in Places |-> b], admin |-> b]

\* The whole file in one disk block, as on media with 4096-byte blocks.
OneBlock == {0}
AllInOne == [i \in 0 .. MaxUsers - 1 |-> InBlock(0)]

\* 512-byte blocks.  The boundary at byte 512 falls into the password of entry 3
\* of the file (bytes 468 to 531), behind 22 characters: here that is entry 1,
\* and one character.
TwoBlocks == {0, 1}
Straddling ==
  [i \in 0 .. MaxUsers - 1 |->
     IF i = 0 THEN InBlock(0)
     ELSE IF i = 1 THEN [name |-> 0, password |-> [k \in Places |-> IF k = 1 THEN 0 ELSE 1], admin |-> 1]
     ELSE InBlock(1)]
=============================================================================
