-------------------------------- MODULE Http ---------------------------------
(***************************************************************************)
(* class http: one object and the calls its user makes, in any order.  The *)
(* object keeps state between them: options of the curl handle, the list   *)
(* of request headers, and what the responses left behind (_responseHeader *)
(* and _responseBody grow together and are one variable here).  A response *)
(* is known by the page it is of.  A page has at most one title tag, its   *)
(* first node is no title tag, and the text of a title is known by the     *)
(* page it is on.                                                          *)
(*                                                                         *)
(* Definitions whose names end in _mutant are the slips that each property *)
(* is shown to notice; no specification uses them.                         *)
(***************************************************************************)
EXTENDS Integers, Sequences, SequencesExt

CONSTANTS
  Pages,          (* the URLs that are requested                           *)
  Titled,         (* the pages that have a title                           *)
  Cut,            (* the pages that end with the title tag                 *)
  MaxRequests,    (* bound on the requests                                 *)
  MaxTitle        (* bound on the titles in _title                         *)

ASSUME HttpAssumption ==
  /\ Titled \subseteq Pages
  /\ Cut \subseteq Pages \ Titled
  /\ MaxRequests \in Nat \ {0}
  /\ MaxTitle \in Nat

VARIABLES
  phase,     (* "new", "open", "performing", "gone"; "exited" when the     *)
             (* process is; "undefined" when freed memory, NULL or a node *)
             (* that is not there was used                                *)
  url,       (* CURLOPT_URL                                                *)
  posting,   (* CURLOPT_POST and CURLOPT_POSTFIELDS, which points into a   *)
             (* string that is gone when postRequest returns               *)
  headers,   (* _requestHeaders: "null", "list", or "freed" and still set  *)
  kept,      (* the responses in _responseHeader and _responseBody         *)
  title,     (* _title: the pages whose text was appended                  *)
  requests   (* how many there were                                        *)

vars == <<phase, url, posting, headers, kept, title, requests>>

(* getTitle takes the text of the node behind each title tag.  Behind one  *)
(* that ends a page this is the first of the next response; behind one     *)
(* that ends them all there is none.                                       *)
TitleOf(i) ==
  CASE kept[i].page \in Titled                      -> <<kept[i].page>>
    [] kept[i].page \in Cut /\ i + 1 \in DOMAIN kept -> <<kept[i + 1].page>>
    [] OTHER                                        -> << >>
Titles == FlattenSeq([i \in DOMAIN kept |-> TitleOf(i)])
CutOff == kept # << >> /\ kept[Len(kept)].page \in Cut

(* http.h gives the pointers an initialiser; without one they hold anything. *)
Init_mutant ==
  /\ phase = "new"
  /\ url \in Pages
  /\ posting = FALSE
  /\ headers \in {"null", "freed"}
  /\ kept = << >>
  /\ title = << >>
  /\ requests = 0
Init ==
  /\ phase = "new"
  /\ url \in Pages
  /\ posting = FALSE
  /\ headers = "null"
  /\ kept = << >>
  /\ title = << >>
  /\ requests = 0

(* http(url, port)                                                         *)
New ==
  /\ phase = "new"
  /\ phase' = "open"
  /\ UNCHANGED <<url, posting, headers, kept, title, requests>>
-----------------------------------------------------------------------------
(* The calls of the user.                                                  *)

(* setURL and setPort, which together say which page.                      *)
SetURL ==
  /\ phase = "open"
  /\ url' \in Pages
  /\ UNCHANGED <<phase, posting, headers, kept, title, requests>>

AddRequestHeaders ==
  /\ phase = "open"
  /\ headers # "freed"
  /\ headers' = "list"
  /\ UNCHANGED <<phase, url, posting, kept, title, requests>>

(* _request up to curl_easy_perform: the response is appended to what is   *)
(* there from earlier ones.                                                *)
Perform ==
  /\ phase = "open"
  /\ headers # "freed"
  /\ requests < MaxRequests
  /\ phase' = "performing"
  /\ kept' = Append(kept, [page |-> url, complete |-> FALSE])
  /\ requests' = requests + 1
  /\ UNCHANGED <<url, headers, title>>

(* getRequest sets no option: after postRequest it would post again, what  *)
(* is no longer there (UseFreed).                                          *)
GetRequest == Perform /\ ~posting /\ UNCHANGED posting
PostRequest == Perform /\ posting' = TRUE

GetTitle ==
  /\ phase = "open"
  /\ ~CutOff
  /\ Len(title \o Titles) <= MaxTitle
  /\ title' = title \o Titles
  /\ UNCHANGED <<phase, url, posting, headers, kept, requests>>

(* it++ goes to the end of the tree, and text() is of no node.             *)
TitleAtEnd ==
  /\ phase = "open"
  /\ CutOff
  /\ phase' = "undefined"
  /\ UNCHANGED <<url, posting, headers, kept, title, requests>>

(* getResponse(Key) makes a std::string of NULL when no header has the key. *)
GetResponseMisses ==
  /\ phase = "open"
  /\ phase' = "undefined"
  /\ UNCHANGED <<url, posting, headers, kept, title, requests>>

(* cleanUp frees the list and leaves the pointer to it.                    *)
Release_mutant ==
  /\ headers # "freed"
  /\ headers' = IF headers = "null" THEN "null" ELSE "freed"
  /\ kept' = << >>
  /\ UNCHANGED title
Release ==
  /\ headers # "freed"
  /\ headers' = IF headers = "null" THEN "null" ELSE "freed"
  /\ title' = << >>
  /\ kept' = << >>

CleanUp ==
  /\ phase = "open"
  /\ Release
  /\ UNCHANGED <<phase, url, posting, requests>>

(* ~http                                                                   *)
Delete ==
  /\ phase = "open"
  /\ phase' = "gone"
  /\ Release
  /\ UNCHANGED <<url, posting, requests>>

(* A list that was freed is appended to, sent, or freed again, the last by *)
(* the destructor at the latest; or getRequest posts data that was freed.  *)
UseFreed ==
  /\ phase = "open"
  /\ headers = "freed" \/ posting
  /\ phase' = "undefined"
  /\ UNCHANGED <<url, posting, headers, kept, title, requests>>
-----------------------------------------------------------------------------
(* curl_easy_perform.                                                      *)

Responded ==
  /\ phase = "performing"
  /\ phase' = "open"
  /\ kept' = [kept EXCEPT ![Len(kept)].complete = TRUE]
  /\ UNCHANGED <<url, posting, headers, title, requests>>

(* getErrorMsg ends the process.                                           *)
Exit ==
  /\ phase = "performing"
  /\ phase' = "exited"
  /\ UNCHANGED <<url, posting, headers, kept, title, requests>>

(* It fails: no connection, or one that breaks after a part of the         *)
(* response.                                                               *)
Fails_mutant ==
  /\ phase = "performing"
  /\ phase' = "open"
  /\ UNCHANGED <<url, posting, headers, kept, title, requests>>
Fails == Exit

(* CURLOPT_TIMEOUT, one second, makes it fail in any case.                 *)
TimesOut == Exit

Ended == phase \in {"gone", "exited", "undefined"} /\ UNCHANGED vars

Next ==
  \/ New \/ SetURL \/ AddRequestHeaders \/ GetRequest \/ PostRequest
  \/ GetTitle \/ TitleAtEnd \/ GetResponseMisses \/ CleanUp \/ Delete \/ UseFreed
  \/ Responded \/ Fails \/ TimesOut \/ Ended

Spec == Init /\ [][Next]_vars
-----------------------------------------------------------------------------
(* Beyond the types: the list of headers was freed only in an object that  *)
(* is, or was, in use.                                                     *)
TypeOK ==
  /\ phase \in {"new", "open", "performing", "gone", "exited", "undefined"}
  /\ url \in Pages
  /\ posting \in BOOLEAN
  /\ headers \in {"null", "list", "freed"}
  /\ headers = "freed" => phase \in {"open", "gone", "undefined"}
  /\ kept \in Seq([page : Pages, complete : BOOLEAN])
  /\ title \in Seq(Pages)
  /\ requests \in 0 .. MaxRequests

(* The user never sees a part of a response: while it may call getResponse *)
(* or getTitle, every response that is kept arrived to its end.            *)
KeptComplete ==
  phase = "open" => \A i \in DOMAIN kept : kept[i].complete

(* cleanUp forgets a title together with its response: _title holds text   *)
(* that getTitle would still find in _responseBody, however many requests  *)
(* came in between.                                                        *)
TitlesAreKept == ToSet(title) \subseteq ToSet(Titles)
=============================================================================
