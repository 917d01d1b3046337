------------------------------ MODULE MCSession ------------------------------
(* Session on files of up to two lines out of a few that try the reader,   *)
(* one whole file, and a dictionary of two entries with three addresses.   *)
EXTENDS Session

MCNumber == [w \in {"1", "2", "7788", "40000", "70000"} |->
               CASE w = "1" -> 1 [] w = "2" -> 2 [] w = "7788" -> 7788
                 [] w = "40000" -> 40000 [] OTHER -> 70000]

Lines == {<< >>, <<"text">>, <<"threads", "=", "1">>, <<"#", "threads", "=", "2">>,
          <<"threads", "=", " ", "2">>, <<"threads", " ", "=", "2">>,
          <<"dbPass", "=", "a", "=", "b">>, <<"#", "dbPass", "=", "c">>,
          <<"dbPort", "=", "40000">>, <<"dbPort", "=", "7788">>,
          <<"listenPort", "=", "40000">>, <<"listenPort", "=", "70000">>}
Whole == << <<"#", "dbPass", "=", "x">>, <<"dbPass", "=", "=", "y">>,
            <<"threads", "=", "2">>, <<"listenPort", "=", "40000">>,
            <<"dbPort", "=", "7788">>, <<"dbPass", "=", "z">> >>
MCFiles == {<<l>> : l \in Lines} \cup {<<l, m>> : l, m \in Lines} \cup {Whole}

MCDictionaries == {<<"www", "mail">>}
MCAddresses == << <<"a">>, <<"b", "c">>, <<"a">> >>
MCListening == [a \in {"a", "b", "c"} |-> IF a = "b" THEN {} ELSE {"80", "8080"}]
MCUrl(n) == [name |-> n, form |-> "url"]
MCTitled == {<<MCUrl(1), "80">>, <<MCUrl(2), "80">>, <<MCUrl(2), "8080">>}
MCCut == {<<MCUrl(1), "8080">>}
=============================================================================
