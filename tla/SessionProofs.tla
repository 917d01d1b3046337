----------------------------- MODULE SessionProofs -----------------------------
(***************************************************************************)
(* What a refused client gets, whatever the database, the scans and the    *)
(* pages do.                                                               *)
(***************************************************************************)
EXTENDS Session, SequenceFacts

(* Where the session has not received the code yet, where it has not found *)
(* it well-formed yet, and where it ended for reasons of its own.                 *)
Before == {"construct", "load", "recv"}
Unchecked == Before \cup {"connect", "check", "refuse", "refused"}
Broken == {"exited", "crashed"}

(* Behind Check the code is well-formed, before it nothing was done.       *)
OnlyForGood ==
  /\ pc \in Before \cup Broken \/ code \in Codes
  /\ pc \in Unchecked \cup Broken \/ code \in WellFormed
  /\ pc \in Unchecked => ~stored /\ results = << >>
  /\ stored \/ results # << >> => code \in WellFormed

LEMMA InitOnlyForGood == Init => OnlyForGood
BY DEF Init, OnlyForGood, Unchecked, Before

LEMMA NextOnlyForGood == OnlyForGood /\ [Next]_vars => OnlyForGood'
<1> SUFFICES ASSUME OnlyForGood, [Next]_vars PROVE OnlyForGood'
  OBVIOUS
<1> USE DEF OnlyForGood, Unchecked, Before, Broken, Goto, request, database, scan
<1>1. CASE Construct \/ NoConfig \/ Load
  BY <1>1 DEF Construct, NoConfig, Load
<1>2. CASE Receive \/ ConnectMySQL
  BY <1>2 DEF Receive, ConnectMySQL
<1>3. CASE Check \/ Refuse
  BY <1>3 DEF Check, CheckStr, Codes, WellFormed, Refuse
<1>4. CASE Select \/ SelectNothing \/ QueryCrashes \/ CreateJob
  BY <1>4 DEF Select, SamePointer, SelectNothing, QueryCrashes, CreateJob
<1>5. CASE Resolve \/ ScanTerminates \/ NextResult
  BY <1>5 DEF Resolve, ScanTerminates, NextResult
<1>6. CASE NothingOpen \/ PortOpen \/ Finish
  BY <1>6 DEF NothingOpen, PortOpen, Finish
<1>7. CASE NewPage \/ GetPage \/ PageArrives \/ PageFails \/ PageTimesOut
             \/ PrintTitle \/ PrintTitleAtEnd \/ Title \/ Return
  BY <1>7
     DEF NewPage, GetPage, PageArrives, PageFails, PageTimesOut, PrintTitle,
         PrintTitleAtEnd, Title, Return, With
<1>8. CASE UNCHANGED vars
  BY <1>8 DEF vars
<1> QED
  BY <1>1, <1>2, <1>3, <1>4, <1>5, <1>6, <1>7, <1>8 DEF Next, Serve, Ended

(* No job is stored and no name resolved for a client whose code is        *)
(* malformed, whatever the library makes of the calls before the check.    *)
THEOREM OnlyGoodCodesAreServed == Spec => []RefusedGetsNothing
<1>1. OnlyForGood => RefusedGetsNothing
  BY DEF OnlyForGood, RefusedGetsNothing
<1> QED
  BY <1>1, InitOnlyForGood, NextOnlyForGood, PTL DEF Spec
-----------------------------------------------------------------------------
Response == [page : Pages, complete : BOOLEAN]
Dotted == {host \in Hosts : host.form = "dotted"}
Tuple == [host : Dotted, address : DOMAIN Listening]
Info == [host : Hosts, port : Ports \cup {None, Stray}, titles : Seq(Pages)]

Early == Unchecked \cup {"select", "job", "dns"}
Asking == {"new", "get", "wait", "print title", "title", "return"}

(* What stands in the variables of the two loops.                          *)
Typed ==
  /\ pc \in {"construct"} \cup Working \cup Terminal
  /\ results \in Seq(Tuple)
  /\ infos \in Seq(Info)
  /\ pc \in Asking => url \in Pages
  /\ url = Nowhere \/ Page!TypeOK

(* How far the loop over the results came.                                 *)
Progress ==
  /\ pc \in Early => results = << >> /\ infos = << >>
  /\ Len(infos) <= Len(results)
  /\ pc \in {"ports"} \cup Asking => Len(infos) < Len(results)
  /\ pc \in {"finish", "finished"} => Len(infos) = Len(results)

(* HTTP_REQ is about the current host and nothing else.                    *)
AboutCurrent ==
  pc \in Asking =>
    /\ url[1] = Url(Current.host)
    /\ kept \in Seq(Response)
    /\ \A i \in DOMAIN kept : kept[i].page = url
    /\ title \in Seq(Pages)
    /\ ToSet(title) \subseteq {url}

IInv == Typed /\ Progress /\ AboutCurrent /\ InfosBelong

LEMMA InitIInv == Init => IInv
<1> SUFFICES ASSUME Init PROVE IInv
  OBVIOUS
<1>1. << >> \in Seq(Tuple) /\ << >> \in Seq(Info) /\ DOMAIN << >> = {} /\ Len(<< >>) = 0
  OBVIOUS
<1>2. Typed
  BY <1>1 DEF Init, Typed, Working, Asking
<1>3. Progress
  BY <1>1 DEF Init, Progress, Early, Unchecked, Before, Asking
<1>4. AboutCurrent /\ InfosBelong
  BY <1>1 DEF Init, AboutCurrent, Asking, InfosBelong
<1> QED
  BY <1>2, <1>3, <1>4 DEF IInv

(* The steps that leave the loops and HTTP_REQ alone.                      *)
Control ==
  \/ Construct \/ NoConfig \/ Load \/ Receive \/ ConnectMySQL \/ Check \/ Refuse
  \/ Select \/ SelectNothing \/ QueryCrashes \/ CreateJob \/ ScanTerminates
  \/ NextResult \/ Finish \/ UNCHANGED vars

LEMMA ControlIInv == IInv /\ Control => IInv'
<1> SUFFICES ASSUME IInv, Control PROVE IInv'
  OBVIOUS
<1>1. UNCHANGED <<results, infos, phase, url, posting, headers, kept, title, requests>>
  BY DEF Control, Construct, NoConfig, Load, Receive, ConnectMySQL, Check, Refuse, Select,
         SamePointer, SelectNothing, QueryCrashes, CreateJob, ScanTerminates, NextResult, Finish,
         vars, scan, httpVars
<1>2. /\ pc' \in {"construct"} \cup Working \cup Terminal
      /\ pc' \in Early => pc \in Early
      /\ pc' \in Asking => pc \in Asking
      /\ pc' = "ports" => pc = "ports" \/ Len(infos) < Len(results)
      /\ pc' \in {"finish", "finished"} =>
           pc \in {"finish", "finished"} \/ ~ (Len(infos) < Len(results))
  BY DEF IInv, Typed, Control, Construct, NoConfig, Load, Receive, ConnectMySQL, Check,
         Refuse, Select, SamePointer, SelectNothing, QueryCrashes, CreateJob, ScanTerminates,
         NextResult, Finish, vars, Goto, Working, Terminal, Early, Unchecked, Before, Asking
<1>3. Len(infos) \in Nat /\ Len(results) \in Nat
  BY DEF IInv, Typed
<1>4. Typed'
  BY <1>1, <1>2 DEF IInv, Typed, Page!TypeOK
<1>5. Progress'
  BY <1>1, <1>2, <1>3 DEF IInv, Progress
<1>6. AboutCurrent' /\ InfosBelong'
  BY <1>1, <1>2 DEF IInv, AboutCurrent, InfosBelong, Current
<1> QED
  BY <1>4, <1>5, <1>6 DEF IInv

(* The results of a scan are tuples of its entries.                        *)
LEMMA ResolveIInv == IInv /\ Resolve => IInv'
<1> SUFFICES ASSUME IInv, Resolve PROVE IInv'
  OBVIOUS
<1>1. ASSUME NEW n \in DOMAIN Addresses PROVE Tuples(n) \in Seq(Tuple)
  <2>1. Addresses[n] \in Seq(DOMAIN Listening)
    BY SessionAssumption
  <2>2. /\ DOMAIN Addresses[n] = 1 .. Len(Addresses[n]) /\ Len(Addresses[n]) \in Nat
        /\ \A i \in 1 .. Len(Addresses[n]) : Addresses[n][i] \in DOMAIN Listening
    BY <2>1
  <2>3. AppendDot(Host(n)) \in Dotted
    BY DEF AppendDot, Host, Dotted, Hosts, Forms
  <2> QED
    BY <2>2, <2>3 DEF Tuples, Tuple
<1>2. PICK answered \in SUBSET (Names \cap DOMAIN Addresses) :
        results' = FlattenSeq([n \in 1 .. Len(Addresses) |->
                                 IF n \in answered THEN Tuples(n) ELSE << >>])
  BY DEF Resolve
<1>3. results' \in Seq(Tuple)
  <2> DEFINE pieces == [n \in 1 .. Len(Addresses) |->
                          IF n \in answered THEN Tuples(n) ELSE << >>]
  <2>1. Len(Addresses) \in Nat /\ DOMAIN Addresses = 1 .. Len(Addresses)
    BY SessionAssumption
  <2>2. \A n \in 1 .. Len(Addresses) : pieces[n] \in Seq(Tuple)
    BY <1>1, <2>1
  <2>3. pieces = [n \in 1 .. Len(Addresses) |-> pieces[n]]
    OBVIOUS
  <2> HIDE DEF pieces
  <2> QED
    <3>1. pieces \in Seq(Seq(Tuple))
      BY <2>1, <2>2, <2>3
    <3>2. results' = FlattenSeq(pieces)
      BY <1>2 DEF pieces
    <3> QED
      BY <3>1, <3>2, Flatten
<1>4. infos = << >> /\ Len(infos) = 0
  BY DEF Resolve, Goto, IInv, Progress, Early
<1>5. pc' = "next" /\ UNCHANGED <<infos, url, phase, posting, headers, kept, title, requests>>
  BY DEF Resolve, Goto, httpVars
<1>6. Typed'
  BY <1>3, <1>5 DEF IInv, Typed, Page!TypeOK, Working, Asking
<1>7. Progress'
  <2>1. Len(results') \in Nat
    BY <1>3
  <2> QED
    BY <1>4, <1>5, <2>1 DEF Progress, Early, Unchecked, Before, Asking
<1>8. AboutCurrent' /\ InfosBelong'
  BY <1>4, <1>5 DEF AboutCurrent, Asking, InfosBelong
<1> QED
  BY <1>6, <1>7, <1>8 DEF IInv

LEMMA UrlIs ==
  ASSUME NEW host \in Dotted
  PROVE  Url(host) \in Hosts /\ Url(host) = [host EXCEPT !.form = "url"]
BY DEF Dotted, Hosts, Forms, Url

(* What is appended to infos is about the current host.                    *)
LEMMA AppendInfo ==
  ASSUME IInv, pc \in {"ports"} \cup Asking, NEW info \in Info,
         info.host = IF info.port = None THEN Current.host
                     ELSE [Current.host EXCEPT !.form = "url"],
         ToSet(info.titles) \subseteq {<<info.host, info.port>>},
         infos' = Append(infos, info), results' = results
  PROVE  /\ infos' \in Seq(Info) /\ Len(infos') = Len(infos) + 1
         /\ Len(infos') <= Len(results')
         /\ InfosBelong'
<1>1. /\ infos \in Seq(Info) /\ Len(infos) \in Nat /\ Len(results) \in Nat
      /\ Len(infos) < Len(results)
  BY DEF IInv, Typed, Progress
<1>2. /\ infos' \in Seq(Info) /\ Len(infos') = Len(infos) + 1
      /\ DOMAIN infos' = 1 .. Len(infos) + 1 /\ DOMAIN infos = 1 .. Len(infos)
      /\ \A k \in 1 .. Len(infos) : infos'[k] = infos[k]
      /\ infos'[Len(infos) + 1] = info
  BY <1>1
<1>3. ASSUME NEW k \in DOMAIN infos'
      PROVE  /\ infos'[k].host = IF infos'[k].port = None THEN results'[k].host
                                 ELSE [results'[k].host EXCEPT !.form = "url"]
             /\ ToSet(infos'[k].titles) \subseteq {<<infos'[k].host, infos'[k].port>>}
  <2>1. CASE k \in DOMAIN infos
    BY <1>2, <2>1 DEF IInv, InfosBelong
  <2>2. CASE k = Len(infos) + 1
    BY <1>2, <2>2 DEF Current
  <2> QED
    BY <1>1, <1>2, <2>1, <2>2
<1> QED
  BY <1>1, <1>2, <1>3 DEF InfosBelong

LEMMA CurrentTyped ==
  ASSUME IInv, pc \in {"ports"} \cup Asking PROVE Current \in Tuple
<1>1. /\ results \in Seq(Tuple) /\ infos \in Seq(Info)
      /\ Len(infos) \in Nat /\ Len(results) \in Nat /\ Len(infos) < Len(results)
  BY DEF IInv, Typed, Progress
<1>2. Len(infos) + 1 \in 1 .. Len(results)
  BY <1>1
<1> QED
  BY <1>1, <1>2 DEF Current

LEMMA NothingOpenIInv == IInv /\ NothingOpen => IInv'
<1> SUFFICES ASSUME IInv, NothingOpen PROVE IInv'
  OBVIOUS
<1> DEFINE info == [host |-> Current.host, port |-> None, titles |-> << >>]
<1>1. /\ pc = "ports" /\ pc' = "next" /\ infos' = Append(infos, info)
      /\ UNCHANGED <<results, url, phase, posting, headers, kept, title, requests>>
  BY DEF NothingOpen, Goto, httpVars
<1>2. info \in Info /\ info.port = None /\ info.host = Current.host
  BY <1>1, CurrentTyped DEF Info, Tuple, Dotted
<1>3. ToSet(info.titles) \subseteq {<<info.host, info.port>>}
  BY DEF ToSet
<1> HIDE DEF info
<1>4. infos' \in Seq(Info) /\ Len(infos') <= Len(results') /\ InfosBelong'
  BY <1>1, <1>2, <1>3, AppendInfo
<1>5. Typed'
  BY <1>1, <1>4 DEF IInv, Typed, Page!TypeOK, Working, Asking
<1>6. Progress' /\ AboutCurrent'
  BY <1>1, <1>4 DEF Progress, AboutCurrent, Early, Unchecked, Before, Asking
<1> QED
  BY <1>4, <1>5, <1>6 DEF IInv

LEMMA PortOpenIInv == IInv /\ PortOpen => IInv'
<1> SUFFICES ASSUME IInv, PortOpen PROVE IInv'
  OBVIOUS
<1>1. PICK p \in Reported : url' = <<Url(Current.host), p>>
  BY DEF PortOpen
<1>2. /\ pc = "ports" /\ pc' = "new" /\ phase' = "new" /\ requests' = 0
      /\ posting' = FALSE /\ headers' = "null" /\ kept' = << >> /\ title' = << >>
      /\ UNCHANGED <<results, infos>>
  BY DEF PortOpen, Goto, Fresh, scan
<1>3. Current \in Tuple
  BY <1>2, CurrentTyped
<1>4. p \in Ports \cup {Stray}
  BY <1>3, SessionAssumption DEF Reported, Tuple
<1>5. url' \in Pages /\ url'[1] = Url(Current.host)
  BY <1>1, <1>3, <1>4, UrlIs DEF Pages, Tuple
<1>6. << >> \in Seq(Response) /\ << >> \in Seq(Pages) /\ DOMAIN << >> = {}
      /\ ToSet(<< >>) = {}
  BY DEF ToSet
<1>7. Page!TypeOK'
  <2>1. requests' \in 0 .. 1
    BY <1>2
  <2> QED
    BY <1>2, <1>5, <1>6, <2>1, Zenon DEF Page!TypeOK, Pages, Response
<1>8. Typed'
  BY <1>2, <1>5, <1>7 DEF IInv, Typed, Working
<1>9. Progress'
  BY <1>2 DEF IInv, Progress, Early, Unchecked, Before, Asking
<1>10. AboutCurrent' /\ InfosBelong'
  BY <1>2, <1>5, <1>6 DEF IInv, AboutCurrent, InfosBelong, Current
<1> QED
  BY <1>8, <1>9, <1>10 DEF IInv
(* While HTTP_REQ is there it is well typed.                               *)
LEMMA PageTyped ==
  ASSUME IInv, pc \in Asking
  PROVE  /\ Page!TypeOK /\ url \in Pages
         /\ kept \in Seq(Response) /\ title \in Seq(Pages)
<1>1. Nowhere \notin Pages
  BY SessionAssumption DEF Nowhere, Pages, None, Stray
<1> QED
  BY <1>1 DEF IInv, Typed, AboutCurrent

LEMMA PageTitles ==
  ASSUME IInv, pc \in Asking
  PROVE  Page!Titles \in Seq(Pages) /\ ToSet(Page!Titles) \subseteq {url}
<1>1. /\ Page!Titles = Chosen(kept, Titled, Cut)
      /\ Cut \cap Titled = {}
  BY SessionAssumption
     DEF Page!Titles, Page!TitleOf, Page!FlattenSeq, FlattenSeq, Chosen, ChosenAt
<1>2. kept \in Bodies(Pages) /\ \A i \in DOMAIN kept : kept[i].page = url
  BY DEF IInv, AboutCurrent, Response, Bodies
<1>3. /\ Chosen(kept, Titled, Cut) \in Seq(Pages)
      /\ \A page : page \in ToSet(Chosen(kept, Titled, Cut)) <=>
           \E i \in DOMAIN kept : page \in ToSet(ChosenAt(kept, Titled, Cut, i))
  BY <1>1, <1>2, ChosenAre
<1>4. \A i \in DOMAIN kept : ToSet(ChosenAt(kept, Titled, Cut, i)) \subseteq {url}
  <2> SUFFICES ASSUME NEW i \in DOMAIN kept
               PROVE  ToSet(ChosenAt(kept, Titled, Cut, i)) \subseteq {url}
    OBVIOUS
  <2>1. ToSet(ChosenAt(kept, Titled, Cut, i)) =
          {p \in Pages : \/ p = kept[i].page /\ p \in Titled
                         \/ kept[i].page \in Cut /\ i + 1 \in DOMAIN kept /\ p = kept[i + 1].page}
    BY <1>1, <1>2, ChosenAtIs
  <2> QED
    BY <1>2, <2>1
<1> QED
  BY <1>1, <1>3, <1>4

(* The calls that end a page: the object is not used again.                *)
LEMMA PageEndsIInv == IInv /\ (PageFails \/ PageTimesOut \/ PrintTitleAtEnd) => IInv'
<1> SUFFICES ASSUME IInv, PageFails \/ PageTimesOut \/ PrintTitleAtEnd PROVE IInv'
  OBVIOUS
<1>1. /\ pc \in {"wait", "print title"} /\ pc' \in {"exited", "crashed"}
      /\ \/ phase' = "exited" /\ phase = "performing"
         \/ phase' = "undefined" /\ phase = "open"
      /\ UNCHANGED <<results, infos, url, posting, headers, kept, title, requests>>
  BY DEF PageFails, PageTimesOut, PrintTitleAtEnd, With, Goto, Page!Fails, Page!TimesOut,
         Page!Exit, Page!TitleAtEnd
<1>2. Page!TypeOK'
  BY <1>1, PageTyped DEF Page!TypeOK, Asking
<1>3. Typed'
  BY <1>1, <1>2 DEF IInv, Typed, Terminal, Asking
<1>4. Progress'
  BY <1>1 DEF IInv, Progress, Early, Unchecked, Before, Asking
<1>5. AboutCurrent' /\ InfosBelong'
  BY <1>1 DEF IInv, AboutCurrent, InfosBelong, Asking
<1> QED
  BY <1>3, <1>4, <1>5 DEF IInv

(* The calls within a page, of which each must keep its object about the   *)
(* same host.                                                              *)
LEMMA PageGoesOn ==
  ASSUME IInv, pc \in Asking, pc' \in Asking, UNCHANGED <<results, infos, url>>,
         Page!TypeOK', \A i \in DOMAIN kept' : kept'[i].page = url,
         ToSet(title') \subseteq {url}
  PROVE  IInv'
<1>1. /\ url' \in Pages /\ kept' \in Seq(Response) /\ title' \in Seq(Pages)
  BY PageTyped DEF Page!TypeOK, Pages, Response
<1>2. Typed'
  BY <1>1 DEF IInv, Typed, Working, Asking
<1>3. Progress'
  BY DEF IInv, Progress, Early, Unchecked, Before, Asking
<1>4. AboutCurrent' /\ InfosBelong'
  BY <1>1 DEF IInv, AboutCurrent, InfosBelong, Current
<1> QED
  BY <1>2, <1>3, <1>4 DEF IInv

LEMMA PageStepIInv ==
  IInv /\ (NewPage \/ GetPage \/ PageArrives \/ PrintTitle \/ Title) => IInv'
<1> SUFFICES ASSUME IInv, NewPage \/ GetPage \/ PageArrives \/ PrintTitle \/ Title
             PROVE  IInv'
  OBVIOUS
<1>1. pc \in Asking /\ pc' \in Asking /\ UNCHANGED <<results, infos>>
  BY DEF NewPage, GetPage, PageArrives, PrintTitle, Title, With, Goto, Asking
<1>2. /\ Page!TypeOK /\ url \in Pages
      /\ kept \in Seq(Response) /\ title \in Seq(Pages)
      /\ \A i \in DOMAIN kept : kept[i].page = url
      /\ ToSet(title) \subseteq {url}
  BY <1>1, PageTyped DEF IInv, AboutCurrent
<1>3. CASE NewPage
  <2>1. phase' = "open" /\ UNCHANGED <<url, posting, headers, kept, title, requests>>
    BY <1>3 DEF NewPage, With, Page!New
  <2>2. Page!TypeOK'
    BY <1>2, <2>1 DEF Page!TypeOK
  <2> QED
    BY <1>1, <1>2, <2>1, <2>2, PageGoesOn
<1>4. CASE GetPage
  <2> DEFINE part == [page |-> url, complete |-> FALSE]
  <2>1. /\ phase' = "performing" /\ headers # "freed" /\ requests < 1
        /\ kept' = Append(kept, part) /\ requests' = requests + 1
        /\ UNCHANGED <<url, posting, headers, title>>
    BY <1>4 DEF GetPage, With, Page!GetRequest, Page!Perform
  <2>2. part \in Response /\ part.page = url
    BY <1>2 DEF Response
  <2> HIDE DEF part
  <2>3. kept' \in Seq(Response) /\ \A i \in DOMAIN kept' : kept'[i].page = url
    BY <1>2, <2>1, <2>2
  <2>4. requests' \in 0 .. 1
    BY <1>2, <2>1 DEF Page!TypeOK
  <2>5. Page!TypeOK'
    BY <1>2, <2>1, <2>3, <2>4, Zenon DEF Page!TypeOK, Pages, Response
  <2> QED
    BY <1>1, <1>2, <2>1, <2>3, <2>5, PageGoesOn
<1>5. CASE PageArrives
  <2>1. /\ phase = "performing" /\ phase' = "open"
        /\ kept' = [kept EXCEPT ![Len(kept)].complete = TRUE]
        /\ UNCHANGED <<url, posting, headers, title, requests>>
    BY <1>5 DEF PageArrives, With, Page!Responded
  <2> DEFINE whole == [kept[Len(kept)] EXCEPT !.complete = TRUE]
  <2>2. kept' = [kept EXCEPT ![Len(kept)] = whole]
    BY <2>1
  <2>3. ASSUME Len(kept) \in DOMAIN kept PROVE whole \in Response /\ whole.page = url
    <3>1. kept[Len(kept)] \in Response /\ kept[Len(kept)].page = url
      BY <1>2, <2>3
    <3>2. whole \in Response
      BY <3>1, Zenon DEF Response
    <3>3. whole.page = kept[Len(kept)].page
      BY <3>1 DEF Response
    <3> QED
      BY <3>1, <3>2, <3>3
  <2> HIDE DEF whole
  <2>4. kept' \in Seq(Response) /\ \A i \in DOMAIN kept' : kept'[i].page = url
    <3>1. DOMAIN kept = 1 .. Len(kept) /\ Len(kept) \in Nat
      BY <1>2
    <3>2. CASE Len(kept) \in DOMAIN kept
      <4>1. kept' \in Seq(Response)
        BY <1>2, <2>2, <2>3, <3>1, <3>2
      <4>2. \A i \in DOMAIN kept' :
              kept'[i] = IF i = Len(kept) THEN whole ELSE kept[i]
        BY <2>2, <3>1
      <4> QED
        BY <1>2, <2>2, <2>3, <3>2, <4>1, <4>2
    <3>3. CASE Len(kept) \notin DOMAIN kept
      <4>1. kept' = kept
        BY <1>2, <2>2, <3>1, <3>3
      <4> QED
        BY <1>2, <4>1
    <3> QED
      BY <3>2, <3>3
  <2>5. Page!TypeOK'
    BY <1>2, <2>1, <2>4, Zenon DEF Page!TypeOK, Pages, Response
  <2> QED
    BY <1>1, <1>2, <2>1, <2>4, <2>5, PageGoesOn
<1>6. CASE PrintTitle \/ Title
  <2>1. /\ title' = title \o Page!Titles
        /\ UNCHANGED <<phase, url, posting, headers, kept, requests>>
    BY <1>6 DEF PrintTitle, Title, With, Page!GetTitle
  <2>2. Page!Titles \in Seq(Pages) /\ ToSet(Page!Titles) \subseteq {url}
    BY <1>1, PageTitles
  <2>3. title' \in Seq(Pages) /\ ToSet(title') \subseteq {url}
    <3>1. /\ title \o Page!Titles \in Seq(Pages)
          /\ ToSet(title \o Page!Titles) = ToSet(title) \cup ToSet(Page!Titles)
      BY <1>2, <2>2, ToSetConcat
    <3> QED
      BY <1>2, <2>1, <2>2, <3>1
  <2>4. Page!TypeOK'
    BY <1>2, <2>1, <2>3 DEF Page!TypeOK
  <2> QED
    BY <1>1, <1>2, <2>1, <2>3, <2>4, PageGoesOn
<1> QED
  BY <1>3, <1>4, <1>5, <1>6

LEMMA ReturnIInv == IInv /\ Return => IInv'
<1> SUFFICES ASSUME IInv, Return PROVE IInv'
  OBVIOUS
<1> DEFINE info == [host |-> url[1], port |-> url[2], titles |-> title]
<1>1. /\ pc = "return" /\ pc' = "next" /\ infos' = Append(infos, info)
      /\ phase' = "gone" /\ kept' = << >> /\ title' = << >>
      /\ headers \in {"null", "list"} => headers' \in {"null", "freed"}
      /\ UNCHANGED <<results, url, posting, requests>>
  BY DEF Return, With, Goto, Page!Delete, Page!Release
<1>2. pc \in Asking
  BY <1>1 DEF Asking
<1>3. /\ Page!TypeOK /\ url \in Pages /\ title \in Seq(Pages)
      /\ url[1] = Url(Current.host) /\ ToSet(title) \subseteq {url}
  BY <1>2, PageTyped DEF IInv, AboutCurrent
<1>4. /\ info \in Info
      /\ info.host = IF info.port = None THEN Current.host
                     ELSE [Current.host EXCEPT !.form = "url"]
      /\ ToSet(info.titles) \subseteq {<<info.host, info.port>>}
  <2>1. /\ url[1] \in Hosts /\ url[2] \in Ports \cup {Stray} /\ url = <<url[1], url[2]>>
        /\ url[2] # None
    BY <1>3, SessionAssumption DEF Pages, None, Stray
  <2>2. Url(Current.host) = [Current.host EXCEPT !.form = "url"]
    BY <1>2, CurrentTyped, UrlIs DEF Tuple
  <2> QED
    BY <1>3, <2>1, <2>2 DEF Info
<1> HIDE DEF info
<1>5. infos' \in Seq(Info) /\ Len(infos') <= Len(results') /\ InfosBelong'
  BY <1>1, <1>2, <1>4, AppendInfo
<1>6. headers' \in {"null", "freed"}
  BY <1>1, <1>3 DEF Return, With, Page!Delete, Page!Release, Page!TypeOK
<1>7. Page!TypeOK'
  <2>1. << >> \in Seq(Response) /\ << >> \in Seq(Pages)
    OBVIOUS
  <2> QED
    BY <1>1, <1>3, <1>6, <2>1, Zenon DEF Page!TypeOK, Response, Pages
<1>8. Typed'
  BY <1>1, <1>5, <1>7 DEF IInv, Typed, Working, Asking
<1>9. Progress' /\ AboutCurrent'
  BY <1>1, <1>5 DEF Progress, AboutCurrent, Early, Unchecked, Before, Asking
<1> QED
  BY <1>5, <1>8, <1>9 DEF IInv

LEMMA Invariant == Spec => []IInv
<1>1. IInv /\ [Next]_vars => IInv'
  BY ControlIInv, ResolveIInv, NothingOpenIInv, PortOpenIInv, PageEndsIInv, PageStepIInv,
     ReturnIInv
     DEF Next, Serve, Ended, Control
<1> QED
  BY <1>1, InitIInv, PTL DEF Spec
-----------------------------------------------------------------------------
(* What _getDomainInfo reports is about the host it was called for, in the *)
(* order of the results, whatever scans and pages do and for any hosts.    *)
THEOREM ReportsBelong == Spec => []InfosBelong
<1>1. IInv => InfosBelong
  BY DEF IInv
<1> QED
  BY <1>1, Invariant, PTL
-----------------------------------------------------------------------------
(* Whatever stands in the file, the fields have the types they need.       *)
Fits(c) == c.listenPort \in PortNumbers /\ c.dbPort \in PortNumbers /\ c.threads \in Int

LEMMA ConfigTyped == ASSUME NEW lines PROVE Fits(LoadConfig(lines))
<1>1. \A text : Atoi(text) \in Int
  <2>1. \A words : NumberAt(words) \in Int
    BY NumberAssumption DEF NumberAt
  <2> QED
    BY <2>1, Zenon DEF Atoi
<1>2. \A n \in Int : UnsignedShort(n) \in PortNumbers
  BY DEF UnsignedShort, PortNumbers
<1>3. LoadConfig(lines).listenPort = UnsignedShort(Atoi(ReadConfig(lines, "listenPort")))
  BY DEF LoadConfig
<1>4. LoadConfig(lines).dbPort = UnsignedShort(Atoi(ReadConfig(lines, "dbPort")))
  BY DEF LoadConfig
<1>5. LoadConfig(lines).threads = Atoi(ReadConfig(lines, "threads"))
  BY DEF LoadConfig
<1> QED
  BY <1>1, <1>2, <1>3, <1>4, <1>5, Zenon DEF Fits

(* The rest of the types.                                                  *)
Outside ==
  /\ file \in Files \cup {NoFile}
  /\ pc \in Working => Fits(config)
  /\ connection \in {"open", "shut"}
  /\ code \in Codes \cup {None}
  /\ handle \in Handles
  /\ dictionary \in Dictionaries \cup {<< >>}
  /\ stored \in BOOLEAN

LEMMA OthersKeepConfig ==
  ASSUME [Next]_vars, ~ Construct
  PROVE  file' = file /\ config' = config /\ (pc' \in Working => pc \in Working)
BY DEF Next, Serve, Ended, vars, Goto, With, Working, NoConfig, Load, Receive,
       ConnectMySQL, Check, Refuse, Select, SelectNothing, QueryCrashes,
       CreateJob, Resolve, ScanTerminates, NextResult, NothingOpen, PortOpen,
       NewPage, GetPage, PageArrives, PageFails, PageTimesOut, PrintTitle,
       PrintTitleAtEnd, Title, Return, Finish

LEMMA InsertIs == \A outcome \in Insert(handle) : outcome.stored \in BOOLEAN
BY DEF Insert

LEMMA NextOutside == Outside /\ [Next]_vars => Outside'
<1> SUFFICES ASSUME Outside, [Next]_vars PROVE Outside'
  OBVIOUS
<1>1. CASE Construct
  <2>1. Fits(LoadConfig(file))
    BY ConfigTyped
  <2>2. /\ file' = file /\ config' = LoadConfig(file)
        /\ UNCHANGED <<connection, code, handle, dictionary, stored>>
    BY <1>1 DEF Construct, request, database
  <2> QED
    BY <2>1, <2>2, Zenon DEF Outside
<1>2. ASSUME ~ Construct
      PROVE  file' = file /\ config' = config /\ (pc' \in Working => pc \in Working)
  BY <1>2, OthersKeepConfig
<1>3. ASSUME ~ Construct
      PROVE  /\ connection' \in {connection, "shut"}
             /\ code' \in {code} \cup Codes
             /\ handle' \in {handle, Connected, Close(handle)}
             /\ dictionary' \in {dictionary} \cup Dictionaries
             /\ stored' = stored \/ stored' \in BOOLEAN
  BY <1>3, InsertIs, Zenon
     DEF Next, Serve, Ended, vars, request, database, With, NoConfig, Load, Receive,
         ConnectMySQL, Check, Refuse, Select, SelectNothing, QueryCrashes,
         CreateJob, Resolve, ScanTerminates, NextResult, NothingOpen, PortOpen,
         NewPage, GetPage, PageArrives, PageFails, PageTimesOut, PrintTitle,
       PrintTitleAtEnd, Title, Return, Finish
<1>4. CASE ~ Construct
  <2>1. handle' \in Handles
    BY <1>3, <1>4 DEF Outside, Connected, Close, Handles
  <2> QED
    BY <1>2, <1>3, <1>4, <2>1, Zenon DEF Outside
<1> QED
  BY <1>1, <1>4

(* The variables of a session stay well typed, those of its HTTP object    *)
(* and the widths of the configured numbers included.                      *)
THEOREM TypeCorrect == Spec => []TypeOK
<1>1. Init => Outside
  BY DEF Init, Outside, Working, Handles
<1>2. ASSUME IInv, Outside PROVE TypeOK
  <2>1. \A i \in DOMAIN results : results[i].host \in Hosts
    <3>1. \A i \in DOMAIN results : results[i] \in Tuple
      BY <1>2 DEF IInv, Typed
    <3> QED
      BY <3>1 DEF Tuple, Dotted
  <2>2. \A i \in DOMAIN infos : infos[i].port \in Ports \cup {None, Stray}
    <3>1. \A i \in DOMAIN infos : infos[i] \in Info
      BY <1>2 DEF IInv, Typed
    <3> QED
      BY <3>1 DEF Info
  <2>3. /\ pc \in {"construct"} \cup Working \cup Terminal
        /\ url = Nowhere \/ Page!TypeOK
    BY <1>2 DEF IInv, Typed
  <2> QED
    BY <1>2, <2>1, <2>2, <2>3, Zenon DEF TypeOK, Outside, Fits
<1> QED
  BY <1>1, <1>2, NextOutside, Invariant, PTL DEF Spec
-----------------------------------------------------------------------------
(* Where a line has its first "=".                                         *)
LEMMA EqualsIs ==
  ASSUME NEW S, NEW line \in Seq(S)
  PROVE  /\ Equals(line) \in 0 .. Len(line)
         /\ Equals(line) = 0 => \A i \in 1 .. Len(line) : line[i] # "="
         /\ Equals(line) # 0 => /\ line[Equals(line)] = "="
                                /\ \A i \in 1 .. Equals(line) - 1 : line[i] # "="
<1> DEFINE I == {i \in 1 .. Len(line) : line[i] = "="}
<1>1. Equals(line) = IF I # {} THEN Min(I) ELSE 0
  BY DEF Equals, SelectInSeq
<1>2. I \in SUBSET Nat /\ Len(line) \in Nat
  OBVIOUS
<1>3. CASE I = {}
  BY <1>1, <1>2, <1>3
<1>4. CASE I # {}
  <2>1. Min(I) \in I /\ \A i \in I : Min(I) <= i
   <3> HIDE DEF I
   <3> QED
     BY <1>2, <1>4, MinIs
  <2>2. \A i \in 1 .. Min(I) - 1 : line[i] # "="
    BY <2>1, <1>2
  <2> QED
    BY <1>1, <1>4, <2>1, <2>2
<1> QED
  BY <1>3, <1>4

(* A line sets a key when the key and "=" are its first words.             *)
LEMMA SetsIs ==
  ASSUME NEW S, NEW line \in Seq(S), NEW key \in Words, Words \cup {"="} \subseteq S
  PROVE  /\ Sets(line, key) <=> IsPrefix(<<key, "=">>, line)
         /\ Sets(line, key) => /\ Equals(line) = 2
                               /\ line = <<key, "=">> \o SubSeq(line, 3, Len(line))
<1> DEFINE two == <<key, "=">>
<1>1. key # "=" /\ key # "#" /\ key \in S /\ two \in Seq(S)
      /\ Len(two) = 2 /\ two[1] = key /\ two[2] = "="
  <2>1. key # "=" /\ key # "#" /\ key \in S /\ "=" \in S
    BY DEF Words
  <2>2. two \in Seq(S) /\ Len(two) = 2 /\ two[1] = key /\ two[2] = "="
    BY <2>1, Two, Zenon
  <2> QED
    BY <2>1, <2>2
<1> HIDE DEF two
<1>2. IsPrefix(two, line) <=> Len(line) >= 2 /\ line[1] = key /\ line[2] = "="
  <2>1. SubSeq(two, 1, 2) = two
    BY <1>1, SubSeqFull
  <2>2. ASSUME Len(line) >= 2
        PROVE  /\ SubSeq(line, 1, 2) \in Seq(S)
               /\ Len(SubSeq(line, 1, 2)) = 2
               /\ SubSeq(line, 1, 2)[1] = line[1]
               /\ SubSeq(line, 1, 2)[2] = line[2]
    <3>1. \A i \in 1 .. 2 : SubSeq(line, 1, 2)[i] = line[1 + i - 1]
      BY <2>2, Pieces
    <3> QED
      BY <2>2, <3>1
  <2>3. Len(line) \in Nat
    OBVIOUS
  <2>4. ASSUME Len(line) >= 2, line[1] = key, line[2] = "=" PROVE SubSeq(line, 1, 2) = two
    <3>1. \A i \in 1 .. 2 : SubSeq(line, 1, 2)[i] = two[i]
      BY <1>1, <2>2, <2>4
    <3> QED
      BY <1>1, <2>2, <2>4, <3>1, SeqEqual
  <2> QED
    BY <1>1, <2>1, <2>2, <2>3, <2>4 DEF IsPrefix
<1>3. ASSUME Sets(line, key)
      PROVE Len(line) >= 2 /\ line[1] = key /\ line[2] = "=" /\ Equals(line) = 2
  <2>1. Equals(line) \in 1 .. Len(line) /\ SubSeq(line, 1, Equals(line) - 1) = <<key>>
    BY <1>3, EqualsIs DEF Sets
  <2>2. /\ Len(SubSeq(line, 1, Equals(line) - 1)) = Equals(line) - 1
        /\ \A i \in 1 .. Equals(line) - 1 : SubSeq(line, 1, Equals(line) - 1)[i] = line[i]
    <3>1. 1 \in Nat \ {0} /\ Equals(line) - 1 \in 0 .. Len(line) /\ 1 <= (Equals(line) - 1) + 1
      BY <2>1
    <3> QED
      BY <3>1, Pieces
  <2>3. Len(<<key>>) = 1 /\ <<key>>[1] = key
    BY <1>1, One
  <2>4. Equals(line) = 2
    <3> DEFINE e == Equals(line)
    <3>1. e \in 1 .. Len(line) /\ e - 1 = 1
      BY <2>1, <2>2, <2>3
    <3> QED
      BY <3>1
  <2>5. line[1] = key
    <3>1. SubSeq(line, 1, Equals(line) - 1)[1] = line[1]
      BY <2>2, <2>4
    <3>2. <<key>>[1] = line[1]
      BY <2>1, <3>1, Zenon
    <3> QED
      BY <2>3, <3>2
  <2> QED
    BY <2>1, <2>4, <2>5, EqualsIs
<1>4. ASSUME Len(line) >= 2, line[1] = key, line[2] = "="
      PROVE Sets(line, key) /\ Equals(line) = 2 /\ line = two \o SubSeq(line, 3, Len(line))
  <2> DEFINE e == Equals(line)
  <2>1. e = 2
    <3>1. e \in 0 .. Len(line) /\ e # 0 /\ e \notin 3 .. Len(line) /\ e # 1
      BY <1>1, <1>4, EqualsIs
    <3> QED
      BY <3>1
  <2>2. SubSeq(line, 1, 1) = <<key>>
    <3>1. /\ SubSeq(line, 1, 1) \in Seq(S)
          /\ Len(SubSeq(line, 1, 1)) = 1
          /\ \A i \in 1 .. 1 : SubSeq(line, 1, 1)[i] = line[1 + i - 1]
      BY <1>4, Pieces
    <3>2. <<key>> \in Seq(S) /\ Len(<<key>>) = 1 /\ <<key>>[1] = key
      BY <1>1, One
    <3>3. \A i \in 1 .. 1 : SubSeq(line, 1, 1)[i] = <<key>>[i]
      BY <1>4, <3>1, <3>2
    <3> QED
      BY <3>1, <3>2, <3>3, SeqEqual
  <2>3. ~ IsComment(line)
    BY <1>1, <1>4 DEF IsComment
  <2>4. line = two \o SubSeq(line, 3, Len(line))
    <3> DEFINE rest == SubSeq(line, 3, Len(line))
    <3>1. /\ rest \in Seq(S) /\ Len(rest) = Len(line) - 2
          /\ \A i \in 1 .. Len(line) - 2 : rest[i] = line[3 + i - 1]
      <4>1. 3 \in Nat \ {0} /\ Len(line) \in 0 .. Len(line) /\ 3 <= Len(line) + 1
            /\ Len(line) - 3 + 1 = Len(line) - 2
        BY <1>4
      <4>2. /\ rest \in Seq(S) /\ Len(rest) = Len(line) - 3 + 1
            /\ \A i \in 1 .. Len(line) - 3 + 1 : rest[i] = line[3 + i - 1]
        BY <4>1, Pieces
      <4> HIDE DEF rest
      <4> QED
        BY <4>1, <4>2
    <3> HIDE DEF rest
    <3>2. /\ two \o rest \in Seq(S) /\ Len(two \o rest) = Len(line)
          /\ \A i \in 1 .. Len(line) : (two \o rest)[i] = IF i <= 2 THEN two[i] ELSE rest[i - 2]
      <4>1. /\ two \o rest \in Seq(S)
            /\ Len(two \o rest) = Len(two) + Len(rest)
            /\ \A i \in 1 .. Len(two) + Len(rest) :
                 (two \o rest)[i] = IF i <= Len(two) THEN two[i] ELSE rest[i - Len(two)]
        BY <1>1, <3>1, ConcatProperties
      <4>2. Len(two) + Len(rest) = Len(line)
        BY <1>1, <3>1
      <4> QED
        BY <1>1, <4>1, <4>2
    <3>3. \A i \in 1 .. Len(line) : (two \o rest)[i] = line[i]
      BY <1>1, <1>4, <3>1, <3>2
    <3> QED
      BY <3>2, <3>3, SeqEqual DEF rest
  <2> QED
    BY <1>4, <2>1, <2>2, <2>3, <2>4 DEF Sets
<1> QED
  BY <1>2, <1>3, <1>4 DEF two

(* The first such line of a file counts.                                   *)
LEMMA ReadConfigIs ==
  ASSUME NEW S, NEW lines \in Seq(Seq(S)), NEW key \in Words, Words \cup {"="} \subseteq S
  PROVE  LET I == {i \in DOMAIN lines : IsPrefix(<<key, "=">>, lines[i])}
         IN  IF I = {} THEN ReadConfig(lines, key) = <<"NULL">>
             ELSE \E i \in I : /\ \A j \in I : i <= j
                              /\ lines[i] = <<key, "=">> \o ReadConfig(lines, key)
<1> DEFINE I == {i \in DOMAIN lines : IsPrefix(<<key, "=">>, lines[i])}
           J == {i \in 1 .. Len(lines) : Sets(lines[i], key)}
           first == IF J # {} THEN Min(J) ELSE 0
<1>1. DOMAIN lines = 1 .. Len(lines) /\ \A i \in 1 .. Len(lines) : lines[i] \in Seq(S)
  OBVIOUS
<1>2. I = J
  BY <1>1, SetsIs
<1>3. ReadConfig(lines, key) =
        IF first = 0 THEN <<"NULL">>
        ELSE SubSeq(lines[first], Equals(lines[first]) + 1, Len(lines[first]))
  BY DEF ReadConfig, SelectInSeq
<1>4. CASE J = {}
  BY <1>2, <1>3, <1>4
<1>5. CASE J # {}
  <2>1. first \in J /\ \A j \in J : first <= j
    <3>1. J \in SUBSET Nat
      OBVIOUS
    <3> HIDE DEF J
    <3> QED
      BY <1>5, <3>1, MinIs
  <2> HIDE DEF first
  <2>2. first \in 1 .. Len(lines) /\ Sets(lines[first], key)
    BY <2>1
  <2>3. Equals(lines[first]) = 2
    BY <1>1, <2>2, SetsIs
  <2>4. lines[first] = <<key, "=">> \o SubSeq(lines[first], 3, Len(lines[first]))
    BY <1>1, <2>2, SetsIs
  <2>5. first # 0 /\ Equals(lines[first]) + 1 = 3
    BY <2>2, <2>3
  <2>6. lines[first] = <<key, "=">> \o ReadConfig(lines, key)
    BY <1>3, <2>4, <2>5, Zenon
  <2> QED
    BY <1>2, <1>5, <2>1, <2>6, Zenon
<1> QED
  BY <1>4, <1>5

(* The configuration in use is what the file says: for every file, each    *)
(* value is the rest of the first line that begins with its key and "=".   *)
THEOREM FileIsRead == Spec => []ConfigIsRead
<1> DEFINE Read == /\ file \in Files \cup {NoFile}
                   /\ pc \in Working => file \in Files /\ config = LoadConfig(file)
<1>1. Init => Read
  BY DEF Init, Working
<1>2. Read /\ [Next]_vars => Read'
  <2> SUFFICES ASSUME Read, [Next]_vars PROVE Read'
    OBVIOUS
  <2>1. CASE Construct
    BY <2>1 DEF Construct
  <2>2. CASE ~ Construct
    BY <2>2, OthersKeepConfig
  <2> QED
    BY <2>1, <2>2
<1>3. Read => ConfigIsRead
  <2> SUFFICES ASSUME Read, pc \in Working, NEW key \in Words
               PROVE  LET I == {i \in DOMAIN file : IsPrefix(<<key, "=">>, file[i])}
                      IN  IF I = {} THEN config.words[key] = <<"NULL">>
                          ELSE \E i \in I : /\ \A j \in I : i <= j
                                           /\ file[i] = <<key, "=">> \o config.words[key]
    BY DEF ConfigIsRead
  <2> DEFINE S == STRING \cup Words \cup {"="}
  <2>1. file \in Seq(Seq(STRING)) /\ config = LoadConfig(file)
    BY SessionAssumption
  <2>2. config.words[key] = ReadConfig(file, key)
    BY <2>1 DEF LoadConfig
  <2>3. Words \cup {"="} \subseteq S /\ STRING \subseteq S
    OBVIOUS
  <2> HIDE DEF S, Read
  <2>4. Seq(STRING) \subseteq Seq(S)
    BY <2>3, SeqMonotonic
  <2>5. file \in Seq(Seq(S))
    BY <2>1, <2>4, SeqMonotonic
  <2> DEFINE I == {i \in DOMAIN file : IsPrefix(<<key, "=">>, file[i])}
  <2>6. IF I = {} THEN ReadConfig(file, key) = <<"NULL">>
        ELSE \E i \in I : /\ \A j \in I : i <= j
                         /\ file[i] = <<key, "=">> \o ReadConfig(file, key)
    BY <2>3, <2>5, ReadConfigIs
  <2> QED
    BY <2>2, <2>6, Zenon
<1> QED
  BY <1>1, <1>2, <1>3, PTL DEF Spec
=============================================================================
