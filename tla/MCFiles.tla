------------------------------- MODULE MCFiles -------------------------------
(***************************************************************************)
(* A file with every content of up to three bytes, an empty volume, other  *)
(* files, and a volume with more entries than a listing has room for.      *)
(***************************************************************************)
EXTENDS EosfsListing, TLC

SmallContents == SeqOf({"a", "nl", "cr"}, 3)

\* Two names that are alike in their first 15 characters, and one that does not
\* fit into the buffer of the listing.
SmallNames == {"boot", "existentos.txt.1", "existentos.txt.2", "long"}
SmallShortNames ==
  [n \in SmallNames |-> IF n \in {"boot", "long"} THEN n ELSE "existentos.txt."]

SmallVolumes ==
  {"boot" :> c : c \in SmallContents}
    \cup {<<>>, "long" :> <<"a">>, "existentos.txt.1" :> <<"a">> @@ "long" :> <<>>}
    \cup {"boot" :> <<"a", "nl">> @@ "existentos.txt.1" :> <<>> @@ "existentos.txt.2" :> <<"a">>}

SmallTexts == [n \in Names |-> IF n = "boot" THEN {<<"b", "nl">>} ELSE {}]

\* g_entries
Table == <<"boot", "drivers", "kernel", "mnt", "existentos.txt">>
=============================================================================
