------------------------------- MODULE Session -------------------------------
(***************************************************************************)
(* One line of processes: main constructs the ServerClass, the server is   *)
(* forked and forks a session when it accepts a client (both in module     *)
(* Server), and the session serves that client: _loadSubDomain, recv,      *)
(* _authUser, _createJob, _runDnsThread and, for every name it resolved,   *)
(* _getDomainInfo.  It composes the other modules: Config and Mysql say    *)
(* what the reader and the database return, DnsScan and PortScan what a    *)
(* scan may leave behind, and the page of a host is asked for with the     *)
(* actions of Http, on an object of its own.                               *)
(*                                                                         *)
(* Definitions whose names end in _mutant are the slips that each property *)
(* is shown to notice; no specification uses them.                         *)
(***************************************************************************)
EXTENDS Config, Mysql, FiniteSets

CONSTANTS
  Files,          (* contents of pls.conf                                  *)
  Dictionaries,   (* what the table pls_subdomain may hold                 *)
  Addresses,      (* the addresses the name server knows for the name of   *)
                  (* each entry, and beyond the dictionary, in sequence    *)
  Ports,          (* the ports that are scanned                            *)
  Listening,      (* those that accept connections, for each address       *)
  Titled,         (* the pages, a host and a port, that have a title       *)
  Cut             (* the pages that end with the title tag                 *)

NoFile == << <<"no file">> >>
None == "none"
Stray == "stray"         (* a port number out of memory that was freed      *)

(* What _clientData->authcode may be: malformed or well-formed, of no user *)
(* or of one in pls_user.                                                  *)
WellFormed == {"unknown", "known"}
Codes == {"short", "quoted"} \cup WellFormed

(* The text of a host's name: as sprintf made it, with the dot behind it   *)
(* that changeToDnsNameFormat appends in place, and as _getDomainInfo      *)
(* makes a URL of it, which takes the last dot away whichever it is.       *)
Forms == {"plain", "dotted", "url", "broken"}
Hosts == [name : DOMAIN Addresses, form : Forms]
Host(n) == [name |-> n, form |-> "plain"]
AppendDot(host) == [host EXCEPT !.form = "dotted"]
Url(host) == [host EXCEPT !.form = IF @ = "dotted" THEN "url" ELSE "broken"]

Pages == Hosts \X (Ports \cup {Stray})
Nowhere == <<Host(0), None>>

ASSUME SessionAssumption ==
  /\ Files \subseteq Seq(Seq(STRING))
  /\ None \notin Ports
  /\ Addresses \in Seq(Seq(DOMAIN Listening))
  /\ \A a \in DOMAIN Listening : Listening[a] \subseteq Ports
  /\ Titled \subseteq Pages
  /\ Cut \subseteq Pages \ Titled

VARIABLES
  file,         (* pls.conf                                                *)
  config,       (* _Config                                                 *)
  pc,           (* the next step, or how it ended: "finished", "refused",  *)
                (* "exited" or "crashed"                                   *)
  connection,   (* of the client: "open", or "shut" by shutdown            *)
  code,         (* _clientData->authcode                                   *)
  handle,       (* _sql._mysqlPoint                                        *)
  dictionary,   (* _dnsSubDomains                                          *)
  stored,       (* is the job in pls_jobs?                                 *)
  results,      (* _dnsResult: hosts, by entries' numbers, and addresses   *)
  infos,        (* history: what _getDomainInfo returned                   *)
  phase, url, posting, headers, kept, title, requests   (* HTTP_REQ        *)

request == <<connection, code>>
database == <<handle, dictionary, stored>>
scan == <<results, infos>>
httpVars == <<phase, url, posting, headers, kept, title, requests>>
vars == <<file, config, pc, request, database, scan, httpVars>>

Page == INSTANCE Http WITH MaxRequests <- 1, MaxTitle <- 2

Terminal == {"finished", "refused", "exited", "crashed"}

Goto(from, to) == pc = from /\ pc' = to

(* What setThreads makes of the configured number.                         *)
Workers == IF config.threads < 100 THEN config.threads ELSE 100

Init ==
  /\ file \in Files \cup {NoFile}
  /\ config = << >>
  /\ pc = "construct"
  /\ connection = "open"
  /\ code = None
  /\ handle = "unset" /\ dictionary = << >> /\ stored = FALSE
  /\ results = << >> /\ infos = << >>
  /\ phase = "gone" /\ url = Nowhere /\ posting = FALSE /\ headers = "null"
  /\ kept = << >> /\ title = << >> /\ requests = 0
-----------------------------------------------------------------------------
(* ServerClass::ServerClass; then the processes are forked.                *)
Construct ==
  /\ file # NoFile
  /\ Goto("construct", "load")
  /\ config' = LoadConfig(file)
  /\ UNCHANGED <<file, request, database, scan, httpVars>>

NoConfig ==
  /\ file = NoFile
  /\ Goto("construct", "exited")
  /\ UNCHANGED <<file, config, request, database, scan, httpVars>>

(* _loadSubDomain, before there is a connection.                           *)
Load ==
  /\ Goto("load", "recv")
  /\ \/ "row" \in FirstRow(handle) /\ dictionary' \in Dictionaries
     \/ "none" \in FirstRow(handle) /\ UNCHANGED dictionary
  /\ UNCHANGED <<file, config, request, handle, stored, scan, httpVars>>

(* recv takes what there is, nothing at the end of the stream: the buffer  *)
(* keeps what it held before where no octets arrived.                      *)
Receive ==
  /\ Goto("recv", "connect")
  /\ code' \in Codes
  /\ UNCHANGED <<file, config, connection, database, scan, httpVars>>

(* _getMySQL; exit without a word to the client when it fails.             *)
ConnectMySQL ==
  /\ \E outcome \in Connect :
       Goto("connect", CASE outcome = "ok"   -> "check"
                         [] outcome = "fail" -> "exited"
                         [] OTHER            -> "crashed")
  /\ handle' = Connected
  /\ UNCHANGED <<file, config, request, dictionary, stored, scan, httpVars>>

(* Mystr::_checkStr: no quote in the code.                                 *)
CheckStr(str) == str # "quoted"

(* The length of the code and what it holds.  _sendFail sends, and goes on *)
(* to shutdown and exit.                                                   *)
Check_mutant ==
  /\ Goto("check", IF code = "short" THEN "refuse" ELSE "select")
  /\ UNCHANGED <<file, config, request, database, scan, httpVars>>
Check ==
  /\ Goto("check", IF code # "short" /\ CheckStr(code) THEN "select" ELSE "refuse")
  /\ UNCHANGED <<file, config, request, database, scan, httpVars>>

Refuse_mutant ==
  /\ Goto("refuse", "refused")
  /\ UNCHANGED <<file, config, request, database, scan, httpVars>>
Refuse ==
  /\ Goto("refuse", "refused")
  /\ connection' = "shut"
  /\ UNCHANGED <<file, config, code, database, scan, httpVars>>

(* The first row says "1" when the code is that of the first user, and "2" *)
(* when it is not.  Two pointers are compared, one into the row and one to *)
(* the literal, never what they point to.  Then close.                     *)
FirstRows(str) == IF str = "known" THEN {"1", "2"} ELSE {"2"}
SamePointer(row, literal) == FALSE
Select ==
  /\ "row" \in FirstRow(handle)
  /\ \E row \in FirstRows(code) :
       Goto("select", IF SamePointer(row, "2") THEN "refuse" ELSE "job")
  /\ handle' = Close(handle)
  /\ UNCHANGED <<file, config, request, dictionary, stored, scan, httpVars>>

(* No row to look at: the table is empty, or there is no result.           *)
SelectNothing ==
  /\ "none" \in FirstRow(handle)
  /\ Goto("select", "crashed")
  /\ UNCHANGED <<file, config, request, database, scan, httpVars>>

(* A query the library does not define brings the process down.            *)
QueryCrashes ==
  /\ "crash" \in FirstRow(handle)
  /\ \E at \in {"load", "select"} : Goto(at, "crashed")
  /\ UNCHANGED <<file, config, request, database, scan, httpVars>>

(* _createJob does not look at what insert returns.                        *)
CreateJob ==
  /\ \E outcome \in Insert(handle) :
       /\ Goto("job", IF outcome.returns THEN "dns" ELSE "crashed")
       /\ stored' = outcome.stored
  /\ UNCHANGED <<file, config, request, handle, dictionary, scan, httpVars>>
-----------------------------------------------------------------------------
(* _runDnsThread                                                           *)

(* dns::runThread, as DnsScan shows it: the addresses of the entries that  *)
(* were answered, in order, and of as many names beyond them as there are  *)
(* workers but one.                                                        *)
Names == IF Workers <= 0 \/ dictionary = << >> THEN {}
         ELSE 1 .. Len(dictionary) + Workers - 1
Tuples(n) ==
  [i \in DOMAIN Addresses[n] |-> [host |-> AppendDot(Host(n)), address |-> Addresses[n][i]]]
Resolve ==
  /\ Goto("dns", "next")
  /\ \E answered \in SUBSET (Names \cap DOMAIN Addresses) :
       results' = FlattenSeq([n \in 1 .. Len(Addresses) |->
                                IF n \in answered THEN Tuples(n) ELSE << >>])
  /\ UNCHANGED <<file, config, request, database, infos, httpVars>>

(* A thread cannot be started, or a worker uses an entry that is not there. *)
ScanTerminates ==
  /\ \E at \in {"dns", "ports"} : Goto(at, "crashed")
  /\ Workers > 0
  /\ UNCHANGED <<file, config, request, database, scan, httpVars>>

(* The loop over the results; behind it they are printed.                  *)
Current == results[Len(infos) + 1]
NextResult ==
  /\ Goto("next", IF Len(infos) < Len(results) THEN "ports" ELSE "finish")
  /\ UNCHANGED <<file, config, request, database, scan, httpVars>>

(* MyportScan::runThread, as PortScan shows it: the first scan reports     *)
(* ports that are open; a later one goes on with a stale iterator and may  *)
(* report any.  Only the first port on the list is looked at.              *)
Reported == IF Workers <= 0 THEN {}
            ELSE IF infos = << >> THEN Listening[Current.address]
            ELSE Ports \cup {Stray}

NothingOpen ==
  /\ Goto("ports", "next")
  /\ infos' = Append(infos, [host |-> Current.host, port |-> None, titles |-> << >>])
  /\ UNCHANGED <<file, config, request, database, results, httpVars>>

Fresh == posting' = FALSE /\ headers' = "null" /\ kept' = << >> /\ title' = << >>
(* As if HTTP_REQ were static, like the iterator of _scanPort.             *)
PortOpen_mutant ==
  /\ Goto("ports", "new")
  /\ \E p \in Reported : url' = IF url = Nowhere THEN <<Url(Current.host), p>> ELSE url
  /\ phase' = "new" /\ requests' = 0
  /\ Fresh
  /\ UNCHANGED <<file, config, request, database, scan>>
PortOpen ==
  /\ Goto("ports", "new")
  /\ \E p \in Reported : url' = <<Url(Current.host), p>>
  /\ phase' = "new" /\ requests' = 0
  /\ Fresh
  /\ UNCHANGED <<file, config, request, database, scan>>

(* HTTP_REQ, call by call: a step of the session and one of the object.    *)
With(from, to, call) ==
  /\ Goto(from, to)
  /\ call
  /\ UNCHANGED <<file, config, request, database, results>>

NewPage == With("new", "get", Page!New) /\ UNCHANGED infos
GetPage == With("get", "wait", Page!GetRequest) /\ UNCHANGED infos
PageArrives == With("wait", "print title", Page!Responded) /\ UNCHANGED infos
PageFails == With("wait", "exited", Page!Fails) /\ UNCHANGED infos
PageTimesOut_mutant == FALSE
PageTimesOut == With("wait", "exited", Page!TimesOut) /\ UNCHANGED infos
PrintTitle == With("print title", "title", Page!GetTitle) /\ UNCHANGED infos
Title == With("title", "return", Page!GetTitle) /\ UNCHANGED infos

(* The title tag was the page's last node, and getTitle runs off its end.  *)
PrintTitleAtEnd ==
  With("print title", "crashed", Page!TitleAtEnd) /\ UNCHANGED infos

Return ==
  /\ With("return", "next", Page!Delete)
  /\ infos' = Append(infos, [host |-> url[1], port |-> url[2], titles |-> title])

Finish ==
  /\ Goto("finish", "finished")
  /\ connection' = "shut"
  /\ UNCHANGED <<file, config, code, database, scan, httpVars>>

Ended == pc \in Terminal /\ UNCHANGED vars
-----------------------------------------------------------------------------
Serve ==
  \/ Load \/ ConnectMySQL \/ Check \/ Refuse \/ Select \/ SelectNothing
  \/ QueryCrashes \/ CreateJob \/ Resolve \/ ScanTerminates \/ NextResult
  \/ NothingOpen \/ PortOpen \/ NewPage \/ GetPage \/ PrintTitle
  \/ PrintTitleAtEnd \/ Title \/ Return \/ Finish

Next ==
  \/ Construct \/ NoConfig \/ Receive \/ Serve
  \/ PageArrives \/ PageFails \/ PageTimesOut \/ Ended

(* The session's process is scheduled and the timer of curl runs; the      *)
(* client owes no request and the peers no page.                           *)
Spec == Init /\ [][Next]_vars
FairSpec == Spec /\ WF_vars(Serve) /\ WF_vars(PageTimesOut)
-----------------------------------------------------------------------------
Working == {"load", "recv", "connect", "check", "refuse", "select", "job", "dns",
            "next", "ports", "new", "get", "wait", "print title", "title", "return",
            "finish"}

PortNumbers == 0 .. 65535

TypeOK ==
  /\ file \in Files \cup {NoFile}
  /\ pc \in {"construct"} \cup Working \cup Terminal
  /\ pc \in Working => /\ config.listenPort \in PortNumbers
                       /\ config.dbPort \in PortNumbers
                       /\ config.threads \in Int
  /\ connection \in {"open", "shut"}
  /\ code \in Codes \cup {None}
  /\ handle \in Handles
  /\ dictionary \in Dictionaries \cup {<< >>}
  /\ stored \in BOOLEAN
  /\ \A i \in DOMAIN results : results[i].host \in Hosts
  /\ \A i \in DOMAIN infos : infos[i].port \in Ports \cup {None, Stray}
  /\ url = Nowhere \/ Page!TypeOK

(* Each field is what the first line that begins with its key and "=" says *)
(* and nothing else in the file matters, neither comments nor text nor a   *)
(* second "=" in the value.                                                *)
ConfigIsRead ==
  pc \in Working =>
    \A key \in Words :
      LET lines == {i \in DOMAIN file : IsPrefix(<<key, "=">>, file[i])}
      IN  IF lines = {} THEN config.words[key] = <<"NULL">>
          ELSE \E i \in lines : /\ \A j \in lines : i <= j
                                /\ file[i] = <<key, "=">> \o config.words[key]

(* Nothing is stored or resolved for a client whose code is malformed:     *)
(* _sendFail does not return to its caller.                                *)
RefusedGetsNothing == stored \/ results # << >> => code \in WellFormed

(* "Verify permission": a job is stored and names are resolved only for    *)
(* the code of a user.                                                     *)
PermissionVerified == stored \/ results # << >> => code = "known"

(* What is reported of a host is of that host, in the order of the         *)
(* results: where a port is open the host's own URL, made of its name with *)
(* the dot that the resolver left behind it, and no title of an earlier    *)
(* host's page among its titles.                                           *)
InfosBelong ==
  \A k \in DOMAIN infos :
    LET info == infos[k]
    IN  /\ info.host = IF info.port = None THEN results[k].host
                       ELSE [results[k].host EXCEPT !.form = "url"]
        /\ ToSet(info.titles) \subseteq {<<info.host, info.port>>}

(* Once recv has returned, whatever it returned, the session ends, and it  *)
(* leaves its client waiting only when the database or a page made it exit *)
(* or it crashed.                                                          *)
SessionEnds ==
  pc = "connect" ~> (connection = "shut" /\ pc \in {"finished", "refused"})
                    \/ pc \in {"exited", "crashed"}
=============================================================================
