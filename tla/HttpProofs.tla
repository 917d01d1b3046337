------------------------------ MODULE HttpProofs ------------------------------
(***************************************************************************)
(* What an object keeps of the responses and of their titles, for any      *)
(* pages and number of requests.                                           *)
(***************************************************************************)
EXTENDS Http, SequenceFacts

Response == [page : Pages, complete : BOOLEAN]

(* Only the response to the request under way may be a part, and it is the *)
(* last.                                                                   *)
PartIsLast ==
  /\ url \in Pages
  /\ kept \in Seq(Response)
  /\ phase \in {"new", "open", "performing", "gone", "exited", "undefined"}
  /\ phase = "performing" => kept # << >>
  /\ phase \in {"new", "open"} => \A i \in DOMAIN kept : kept[i].complete
  /\ phase = "performing" => \A i \in 1 .. Len(kept) - 1 : kept[i].complete

LEMMA Perform_PartIsLast == PartIsLast /\ Perform => PartIsLast'
<1> SUFFICES ASSUME PartIsLast, Perform PROVE PartIsLast'
  OBVIOUS
<1> DEFINE part == [page |-> url, complete |-> FALSE]
<1>1. part \in Response
  BY DEF PartIsLast, Response
<1>2. /\ kept' = Append(kept, part) /\ phase' = "performing" /\ url' = url
      /\ phase = "open"
  BY DEF Perform
<1> HIDE DEF part
<1>3. /\ kept' \in Seq(Response) /\ kept' # << >> /\ Len(kept') = Len(kept) + 1
      /\ DOMAIN kept = 1 .. Len(kept) /\ Len(kept) \in Nat
      /\ \A i \in 1 .. Len(kept) : kept'[i] = kept[i]
  BY <1>1, <1>2 DEF PartIsLast
<1> QED
  BY <1>2, <1>3 DEF PartIsLast

LEMMA Responded_PartIsLast == PartIsLast /\ Responded => PartIsLast'
<1> SUFFICES ASSUME PartIsLast, Responded PROVE PartIsLast'
  OBVIOUS
<1>1. /\ kept' = [kept EXCEPT ![Len(kept)].complete = TRUE]
      /\ phase = "performing" /\ phase' = "open" /\ url' = url
  BY DEF Responded
<1>2. /\ Len(kept) \in Nat \ {0} /\ DOMAIN kept = 1 .. Len(kept)
      /\ \A i \in 1 .. Len(kept) : kept[i] \in Response
  BY <1>1 DEF PartIsLast
<1>3. [kept[Len(kept)] EXCEPT !.complete = TRUE] \in Response
  <2>1. kept[Len(kept)] \in Response
    BY <1>2
  <2> QED
    BY <2>1, Zenon DEF Response
<1>4. kept' = [kept EXCEPT ![Len(kept)] = [kept[Len(kept)] EXCEPT !.complete = TRUE]]
  BY <1>1
<1>5. kept' \in Seq(Response) /\ DOMAIN kept' = 1 .. Len(kept)
  BY <1>2, <1>3, <1>4 DEF PartIsLast
<1>6. kept'[Len(kept)].complete
  BY <1>2, <1>4 DEF Response
<1>7. \A i \in 1 .. Len(kept) - 1 : kept'[i].complete
  BY <1>1, <1>2, <1>4 DEF PartIsLast
<1>8. \A i \in 1 .. Len(kept) : kept'[i].complete
  BY <1>2, <1>6, <1>7
<1> QED
  BY <1>1, <1>5, <1>8 DEF PartIsLast

LEMMA NextPartIsLast == PartIsLast /\ [Next]_vars => PartIsLast'
<1> SUFFICES ASSUME PartIsLast, [Next]_vars PROVE PartIsLast'
  OBVIOUS
<1>1. CASE GetRequest \/ PostRequest
  BY <1>1, Perform_PartIsLast DEF GetRequest, PostRequest
<1>2. CASE Responded
  BY <1>2, Responded_PartIsLast
<1>3. CASE New \/ SetURL \/ AddRequestHeaders \/ GetTitle \/ TitleAtEnd
             \/ GetResponseMisses \/ UseFreed
  BY <1>3 DEF New, SetURL, AddRequestHeaders, GetTitle, TitleAtEnd, GetResponseMisses,
              UseFreed, PartIsLast
<1>4. CASE CleanUp \/ Delete
  <2>1. kept' = << >> /\ phase' \in {"open", "gone"} /\ url' = url
    BY <1>4 DEF CleanUp, Delete, Release
  <2>2. << >> \in Seq(Response) /\ DOMAIN << >> = {}
    OBVIOUS
  <2> QED
    BY <2>1, <2>2 DEF PartIsLast
<1>5. CASE Fails \/ TimesOut
  BY <1>5 DEF Fails, TimesOut, Exit, PartIsLast
<1>6. CASE UNCHANGED vars
  BY <1>6 DEF vars, PartIsLast
<1> QED
  BY <1>1, <1>2, <1>3, <1>4, <1>5, <1>6 DEF Next, Ended
-----------------------------------------------------------------------------
IInv == PartIsLast /\ TypeOK /\ TitlesAreKept

LEMMA TitlesAreChosen ==
  /\ Titles = Chosen(kept, Titled, Cut) /\ Titles' = Chosen(kept', Titled, Cut)
  /\ Cut \cap Titled = {} /\ Seq(Response) = Bodies(Pages)
BY HttpAssumption DEF Titles, TitleOf, Chosen, ChosenAt, Response, Bodies

LEMMA InitIInv == Init => IInv
<1> SUFFICES ASSUME Init PROVE IInv
  OBVIOUS
<1>1. PartIsLast
  BY DEF Init, PartIsLast
<1>2. TypeOK
  <2>1. << >> \in Seq([page : Pages, complete : BOOLEAN]) /\ << >> \in Seq(Pages)
    OBVIOUS
  <2>2. 0 \in 0 .. MaxRequests
    BY HttpAssumption
  <2> QED
    BY <2>1, <2>2, Zenon DEF Init, TypeOK
<1>3. TitlesAreKept
  BY DEF Init, TitlesAreKept, ToSet
<1> QED
  BY <1>1, <1>2, <1>3 DEF IInv

LEMMA NextTypeOK == IInv /\ [Next]_vars => TypeOK'
<1> SUFFICES ASSUME IInv, [Next]_vars PROVE TypeOK'
  OBVIOUS
<1>1. kept' \in Seq([page : Pages, complete : BOOLEAN])
  BY NextPartIsLast DEF IInv, PartIsLast, Response
<1> USE <1>1, HttpAssumption DEF IInv, TypeOK
<1>2. CASE GetRequest \/ PostRequest
  <2>1. Perform /\ posting' \in BOOLEAN
    BY <1>2, Zenon DEF GetRequest, PostRequest
  <2>2. requests' \in 0 .. MaxRequests
    BY <2>1 DEF Perform
  <2>3. phase' = "performing" /\ headers' = headers /\ headers # "freed"
        /\ url' = url /\ title' = title
    BY <2>1 DEF Perform
  <2> QED
    BY <2>1, <2>2, <2>3, Zenon
<1>3. CASE GetTitle
  <2>1. Titles \in Seq(Pages)
    BY TitlesAreChosen, ChosenAre DEF Response
  <2>2. title' \in Seq(Pages)
    BY <1>3, <2>1, ToSetConcat DEF GetTitle
  <2> QED
    BY <1>3, <2>2 DEF GetTitle
<1>4. CASE New \/ SetURL \/ AddRequestHeaders \/ TitleAtEnd \/ GetResponseMisses \/ UseFreed
  BY <1>4 DEF New, SetURL, AddRequestHeaders, TitleAtEnd, GetResponseMisses, UseFreed
<1>5. CASE CleanUp \/ Delete
  BY <1>5 DEF CleanUp, Delete, Release
<1>6. CASE Responded \/ Fails \/ TimesOut
  BY <1>6 DEF Responded, Fails, TimesOut, Exit
<1>7. CASE UNCHANGED vars
  BY <1>7 DEF vars
<1> QED
  BY <1>2, <1>3, <1>4, <1>5, <1>6, <1>7 DEF Next, Ended

LEMMA NextTitlesAreKept == IInv /\ [Next]_vars => TitlesAreKept'
<1> SUFFICES ASSUME IInv, [Next]_vars PROVE TitlesAreKept'
  OBVIOUS
<1>1. kept \in Seq(Response) /\ kept' \in Seq(Response)
  BY NextPartIsLast DEF IInv, PartIsLast
<1>2. SUFFICES ToSet(title') \subseteq ToSet(Chosen(kept', Titled, Cut))
  BY TitlesAreChosen DEF TitlesAreKept
<1>3. ToSet(title) \subseteq ToSet(Chosen(kept, Titled, Cut)) /\ title \in Seq(Pages)
  BY TitlesAreChosen DEF IInv, TitlesAreKept, TypeOK
<1>4. ASSUME title' = title, \A i \in DOMAIN kept : i \in DOMAIN kept' /\ kept'[i].page = kept[i].page
      PROVE  ToSet(title') \subseteq ToSet(Chosen(kept', Titled, Cut))
  <2>1. ToSet(Chosen(kept, Titled, Cut)) \subseteq ToSet(Chosen(kept', Titled, Cut))
    BY <1>1, <1>4, TitlesAreChosen, ChosenStay
  <2> QED
    BY <1>3, <1>4, <2>1
<1>5. CASE GetRequest \/ PostRequest
  <2> DEFINE part == [page |-> url, complete |-> FALSE]
  <2>1. kept' = Append(kept, part) /\ title' = title
    BY <1>5 DEF GetRequest, PostRequest, Perform
  <2> HIDE DEF part
  <2>2. \A i \in DOMAIN kept : i \in DOMAIN kept' /\ kept'[i] = kept[i]
    BY <1>1, <2>1
  <2> QED
    BY <1>4, <2>1, <2>2
<1>6. CASE Responded
  <2>1. /\ kept' = [kept EXCEPT ![Len(kept)].complete = TRUE]
        /\ title' = title
    BY <1>6 DEF Responded
  <2>2. \A i \in DOMAIN kept : i \in DOMAIN kept' /\ kept'[i].page = kept[i].page
    BY <1>1, <2>1 DEF Response
  <2> QED
    BY <1>4, <2>1, <2>2
<1>7. CASE GetTitle
  <2>1. title' = title \o Chosen(kept, Titled, Cut) /\ kept' = kept
    BY <1>7, TitlesAreChosen DEF GetTitle
  <2>2. Chosen(kept, Titled, Cut) \in Seq(Pages)
    BY <1>1, TitlesAreChosen, ChosenAre
  <2> QED
    BY <1>3, <2>1, <2>2, ToSetConcat
<1>8. CASE CleanUp \/ Delete
  <2>1. title' = << >>
    BY <1>8 DEF CleanUp, Delete, Release
  <2> QED
    BY <2>1 DEF ToSet
<1>9. CASE New \/ SetURL \/ AddRequestHeaders \/ TitleAtEnd \/ GetResponseMisses
             \/ UseFreed \/ Fails \/ TimesOut \/ UNCHANGED vars
  <2>1. title' = title /\ kept' = kept
    BY <1>9 DEF New, SetURL, AddRequestHeaders, TitleAtEnd, GetResponseMisses, UseFreed,
                Fails, TimesOut, Exit, vars
  <2> QED
    BY <1>3, <2>1
<1> QED
  BY <1>5, <1>6, <1>7, <1>8, <1>9 DEF Next, Ended

LEMMA Invariant == Spec => []IInv
<1>1. IInv /\ [Next]_vars => IInv'
  BY NextPartIsLast, NextTypeOK, NextTitlesAreKept DEF IInv
<1> QED
  BY <1>1, InitIInv, PTL DEF Spec
-----------------------------------------------------------------------------
(* The variables of an object stay well typed.                             *)
THEOREM TypeCorrect == Spec => []TypeOK
<1>1. IInv => TypeOK
  BY DEF IInv
<1> QED
  BY <1>1, Invariant, PTL

(* No user of the object ever sees a part of a response, for any number of *)
(* requests and pages, because getErrorMsg does not return.                *)
THEOREM PartsAreNeverSeen == Spec => []KeptComplete
<1>1. IInv => KeptComplete
  BY DEF IInv, PartIsLast, KeptComplete
<1> QED
  BY <1>1, Invariant, PTL

(* No title outlives the response it was found in: cleanUp forgets both.   *)
THEOREM TitlesGoWithResponses == Spec => []TitlesAreKept
<1>1. IInv => TitlesAreKept
  BY DEF IInv
<1> QED
  BY <1>1, Invariant, PTL
=============================================================================
