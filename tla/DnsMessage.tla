----------------------------- MODULE DnsMessage ------------------------------
(***************************************************************************)
(* The messages of dns::threadRequest, octet by octet: how the query is    *)
(* written into _buff (setDnsHeader, setQname with changeToDnsNameFormat,  *)
(* setQinfo) and how the answer section is read out of it (ReadName and    *)
(* the loop over ans_count).  DnsScan treats a message as a set of         *)
(* records; here it is shown that the reading finds that set, however the  *)
(* name server writes the names, in full or compressed with a pointer to   *)
(* an earlier occurrence, as long as no label holds an octet that ReadName *)
(* takes for something else.                                               *)
(*                                                                         *)
(* A name is a sequence of labels, a label a sequence of octets; its text  *)
(* joins the labels with dots.  Positions in _buff are offsets, from 0.    *)
(***************************************************************************)
EXTENDS Integers, Sequences, SequencesExt, FiniteSets

CONSTANTS
  Hosts,        (* the names that are asked for                            *)
  Targets,      (* the names that an alias may lead to                     *)
  Addresses,    (* IPv4 addresses: sequences of four octets                *)
  MaxAnswers    (* bound on the records of an answer section               *)

Dot == 46
Octets == 0 .. 255

(* The labels of a name as they are written in a message.                  *)
Wire(labels) == FlattenSeq([i \in DOMAIN labels |-> <<Len(labels[i])>> \o labels[i]])

(* Labels have up to 63 octets of any value, and a name, with the 0 at its *)
(* end, 255.                                                               *)
Labels == {l \in Seq(Octets) : Len(l) \in 1 .. 63}
Names == {n \in Seq(Labels) : n # << >> /\ Len(Wire(n)) <= 254}

ASSUME MessageAssumption ==
  /\ Hosts \cup Targets \subseteq Names
  /\ \A h \in Hosts : \A i \in DOMAIN h : ToSet(h[i]) \cap {0, Dot} = {}
  /\ Addresses \subseteq {a \in Seq(Octets) : Len(a) = 4}
  /\ MaxAnswers \in 0 .. 20

VARIABLES
  pc,        (* "query", "reply", "parse", "done", or "undefined" when the *)
             (* reading left the message or the room it has                *)
  asked,     (* the name that is asked for                                 *)
  buff,      (* _buff                                                      *)
  meant,     (* what the name server means: its records                    *)
  ends,      (* the offset behind each of its records                      *)
  known,     (* the names in its message, with their offsets               *)
  reader,    (* _reader, as an offset                                      *)
  answers,   (* _answers, as far as it was filled                          *)
  aResult    (* the addresses added to _aResult                            *)

(* Definitions whose names end in _mutant are the slips that each property *)
(* is shown to notice; no specification uses them.                         *)
vars == <<pc, asked, buff, meant, ends, known, reader, answers, aResult>>

Text(name) == Front(FlattenSeq([i \in DOMAIN name |-> Append(name[i], Dot)]))

At(o) == buff[o + 1]          (* the octet at offset o                      *)

(* The offsets at which a name written at o can be pointed to from then on, *)
(* one for each of its own labels and one for its pointer.                 *)
Occurrences(o, name, encoding) ==
  {k \in {<<o + Len(Wire(SubSeq(name, 1, j - 1))), SubSeq(name, j, Len(name))>> :
            j \in DOMAIN name} : k[1] <= o + Len(encoding) - 2}
-----------------------------------------------------------------------------
(* Writing the query.                                                      *)

(* changeToDnsNameFormat: a dot is appended to the host, and at each dot   *)
(* what stands behind the dot before it, lock, is written behind its       *)
(* length; a 0 ends the name.                                              *)
ToDnsNameFormat_mutant(text) ==
  LET host == Append(text, Dot)
      lock(i) == SelectInSubSeq(host, 1, i - 1, LAMBDA c : c = Dot)
      piece(i) == SubSeq(host, lock(i) + 1, i - 1)
  IN  FlattenSeq([i \in DOMAIN host |->
        IF host[i] = Dot THEN <<Len(piece(i)) % 256>> \o piece(i) ELSE << >>]) \o <<0>>
ToDnsNameFormat(text) ==
  LET host == Append(text, Dot)
      lock(i) == SelectLastInSubSeq(host, 1, i - 1, LAMBDA c : c = Dot)
      piece(i) == SubSeq(host, lock(i) + 1, i - 1)
  IN  FlattenSeq([i \in DOMAIN host |->
        IF host[i] = Dot THEN <<Len(piece(i)) % 256>> \o piece(i) ELSE << >>]) \o <<0>>

(* The header with its counts of questions and answers; the rest is zero.  *)
Header(ancount) == <<0, 0, 0, 0, 0, 1, 0, ancount, 0, 0, 0, 0>>
HeaderSize == 12
Qinfo == <<0, 1, 0, 1>>       (* type A, class IN                          *)

Query ==
  /\ pc = "query"
  /\ \E h \in Hosts :
       /\ asked' = h
       /\ buff' = Header(0) \o ToDnsNameFormat(Text(h)) \o Qinfo
       /\ known' = Occurrences(HeaderSize, h, Wire(h) \o <<0>>)
  /\ pc' = "reply"
  /\ UNCHANGED <<meant, ends, reader, answers, aResult>>
-----------------------------------------------------------------------------
(* The name server: it repeats the query and adds records, each of them    *)
(* about the name the last alias led to.                                   *)

(* The ways to write a name: in full, or its first labels and a pointer to *)
(* a known name that is the rest.                                          *)
Encodings(name) ==
  {Wire(name) \o <<0>>} \cup
  {Wire(SubSeq(name, 1, k[2] - 1)) \o <<192 + k[1] \div 256, k[1] % 256>> :
     k \in {k \in {kn[1] : kn \in known} \X DOMAIN name :
              <<k[1], SubSeq(name, k[2], Len(name))>> \in known}}

Current ==
  LET alias == SelectLastInSeq(meant, LAMBDA r : r.type = "CNAME")
  IN  IF alias = 0 THEN asked ELSE meant[alias].data

AddRecord(type, data, rdata) ==
  /\ pc = "reply"
  /\ Len(meant) < MaxAnswers
  /\ \E owner \in Encodings(Current) :
       LET fixed == <<0, IF type = "A" THEN 1 ELSE 5, 0, 1, 0, 0, 0, 60,
                      Len(rdata) \div 256, Len(rdata) % 256>>
           message == buff \o owner \o fixed \o rdata
       IN  /\ buff' = [message EXCEPT ![8] = Len(meant) + 1]
           /\ ends' = Append(ends, Len(message))
           /\ known' = IF type = "A" THEN known
                       ELSE known \cup Occurrences(Len(message) - Len(rdata), data, rdata)
  /\ meant' = Append(meant, [owner |-> Current, type |-> type, data |-> data])
  /\ UNCHANGED <<pc, asked, reader, answers, aResult>>

AddAddress == \E a \in Addresses : AddRecord("A", a, a)
AddAlias == \E n \in Targets : \E rdata \in Encodings(n) : AddRecord("CNAME", n, rdata)

(* How many octets there are from offset o to the first of Marks.         *)
Span(o, Marks) == CHOOSE n \in 0 .. Len(buff) - o :
                   At(o + n) \in Marks /\ \A m \in 0 .. n - 1 : At(o + m) \notin Marks

(* The reply is in _buff, or the query still is: both have no answers then. *)
(* _reader is put behind the question, with strlen(_qname).                *)
Deliver ==
  /\ pc = "reply"
  /\ reader' = HeaderSize + (Span(HeaderSize, {0}) + 1) + Len(Qinfo)
  /\ pc' = "parse"
  /\ UNCHANGED <<asked, buff, meant, ends, known, answers, aResult>>
-----------------------------------------------------------------------------
(* Reading the answers.                                                    *)

(* What stands at x and at the places that follow it, put together, over   *)
(* at most n links: both loops of ReadName go through the octets so.       *)
(* Where they leave what may be read, Lost stands in for what they find.   *)
Lost == -2
Follow(piece, next, n) ==
  LET chain[k \in Nat] ==
        [x \in DOMAIN piece |->
           piece[x] \o (IF next[x] \notin DOMAIN piece THEN << >>
                       ELSE IF k = 0 THEN <<Lost>> ELSE chain[k - 1][next[x]])]
  IN  chain[n]

(* ReadName, first half: collect the octets up to a 0, following pointers. *)
(* Every octet is looked at, those of the labels too.  The count is of the *)
(* steps up to the first jump, and of the end.                             *)
Pointers == 192 .. 255
Offset(o) == At(o) * 256 + At(o + 1) - 49152
Stop(o) == o + Span(o, {0} \cup Pointers)
Nowhere == -1
Places == 0 .. Len(buff) - 1

(* Where the reading goes on behind the octets that stand at x.            *)
Link(x) ==
  IF \A y \in x .. Len(buff) - 1 : At(y) \notin {0} \cup Pointers THEN Lost
  ELSE IF At(Stop(x)) = 0 THEN Nowhere
  ELSE IF Stop(x) + 1 \in Places /\ Offset(Stop(x)) \in Places THEN Offset(Stop(x))
  ELSE Lost

Collect(o) ==
  Follow([x \in Places |-> IF Link(x) = Lost THEN <<Lost>> ELSE SubSeq(buff, x + 1, Stop(x))],
         [x \in Places |-> Link(x)],
         Len(buff))[o]

NameSize_mutant == 128
NameSize == 256               (* malloc(256): the room for octets and a 0  *)

Count(o) == 1 + (Stop(o) - o) + (IF At(Stop(o)) = 0 THEN 0 ELSE 1)

(* Second half: each length moves behind its label as a dot; the last dot  *)
(* becomes the end of the string.                                          *)
Undot(octets) ==
  IF octets = << >> THEN << >>
  ELSE Follow([p \in DOMAIN octets |->
                 IF p + octets[p] > Len(octets) THEN <<Lost>>
                 ELSE Append(SubSeq(octets, p + 1, p + octets[p]), Dot)],
              [p \in DOMAIN octets |-> p + octets[p] + 1],
              Len(octets))[1]

ReadName_mutant(o) == Undot(Collect(o))
ReadName(o) == Front(Undot(Collect(o)))

(* ReadName stays in the message, in the room it has, and in the name.     *)
Legible(o) ==
  /\ o \in Places
  /\ Collect(o) # << >> /\ Lost \notin ToSet(Collect(o))
  /\ Len(Collect(o)) + 1 <= NameSize
  /\ Lost \notin ToSet(Undot(Collect(o)))

(* One pass of the loop: the owner's name, the fixed part, and the data: a *)
(* copy of data_len octets for an address, a name for every other type.    *)
DataSize == 10

AfterData_mutant(data, type, dataLen) ==
  IF type = 1 THEN data + dataLen ELSE data + Count(data) - 1
AfterData(data, type, dataLen) ==
  IF type = 1 THEN data + dataLen ELSE data + Count(data)

Fixed == reader + Count(reader)
Data == Fixed + DataSize
Type == At(Fixed) * 256 + At(Fixed + 1)
DataLen == At(Fixed + 8) * 256 + At(Fixed + 9)

(* All that is read of the next answer can be.                             *)
Whole ==
  /\ Legible(reader)
  /\ Data <= Len(buff)
  /\ IF Type = 1 THEN Data + DataLen <= Len(buff) ELSE Legible(Data)

ParseAnswer ==
  /\ pc = "parse"
  /\ Len(answers) < At(7)
  /\ Whole
  /\ answers' = Append(answers,
       [name |-> ReadName(reader), type |-> Type,
        rdata |-> IF Type = 1 THEN SubSeq(buff, Data + 1, Data + DataLen) ELSE ReadName(Data)])
  /\ reader' = AfterData(Data, Type, DataLen)
  /\ UNCHANGED <<pc, asked, buff, meant, ends, known, aResult>>

(* What an earlier message left behind the end of this one, and what the   *)
(* heap holds behind the room for a name, decide how it goes on.           *)
ParseAstray ==
  /\ pc = "parse"
  /\ Len(answers) < At(7)
  /\ ~Whole
  /\ pc' = "undefined"
  /\ UNCHANGED <<asked, buff, meant, ends, known, reader, answers, aResult>>

(* The second loop: what is recorded of the answers, one after another.    *)
Recorded_mutant == [i \in DOMAIN answers |-> answers[i].rdata]
Recorded ==
  FlattenSeq([i \in DOMAIN answers |->
                IF answers[i].type = 1 THEN <<answers[i].rdata>> ELSE << >>])
Record ==
  /\ pc = "parse"
  /\ Len(answers) = At(7)
  /\ aResult' = Recorded
  /\ pc' = "done"
  /\ UNCHANGED <<asked, buff, meant, ends, known, reader, answers>>

Ended == pc \in {"done", "undefined"} /\ UNCHANGED vars
-----------------------------------------------------------------------------
Init ==
  /\ pc = "query"
  /\ asked = << >> /\ buff = << >> /\ meant = << >> /\ ends = << >>
  /\ known = {} /\ reader = 0 /\ answers = << >> /\ aResult = << >>

Next ==
  \/ Query \/ AddAddress \/ AddAlias \/ Deliver \/ ParseAnswer \/ ParseAstray
  \/ Record \/ Ended

Spec == Init /\ [][Next]_vars
-----------------------------------------------------------------------------
(* No label of the name has an octet that ReadName takes for the end of a  *)
(* name, 0, or for a pointer.                                              *)
Readable(name) == \A i \in DOMAIN name : ToSet(name[i]) \subseteq 1 .. 191
AllReadable ==
  \A r \in ToSet(meant) : Readable(r.owner) /\ (r.type = "CNAME" => Readable(r.data))

Texts == {Text(n) : n \in Hosts \cup Targets}

(* What is read of other names than readable ones may be anything.         *)
TypeOK ==
  /\ pc \in {"query", "reply", "parse", "done", "undefined"}
  /\ asked \in Hosts \cup {<< >>}
  /\ buff \in Seq(Octets)
  /\ \A r \in ToSet(meant) : /\ r.owner \in Hosts \cup Targets
                             /\ \/ r.type = "A" /\ r.data \in Addresses
                                \/ r.type = "CNAME" /\ r.data \in Targets
  /\ ends \in Seq(Nat)
  /\ \A k \in known : k[1] \in HeaderSize .. Len(buff) /\ k[2] \in Seq(Seq(Octets))
  /\ AllReadable =>
       /\ reader \in 0 .. Len(buff)
       /\ \A a \in ToSet(answers) : a.name \in Texts /\ a.rdata \in Addresses \cup Texts
       /\ aResult \in Seq(Addresses)

(* The question in the query is the wire form of the name: the dots of the *)
(* text, with the one that is appended, are taken for the labels' ends.    *)
QuestionIsAsked ==
  pc # "query" =>
    SubSeq(buff, HeaderSize + 1, HeaderSize + Len(Wire(asked)) + 1) = Wire(asked) \o <<0>>

(* The reader stays in step with readable records: after every answer it is *)
(* where the name server ended that record, although the length of a       *)
(* compressed name is only counted while it is read.                       *)
InStep ==
  AllReadable /\ pc \in {"parse", "done"} =>
    reader = IF answers = << >> THEN HeaderSize + Len(Wire(asked)) + 1 + Len(Qinfo)
             ELSE ends[Len(answers)]

(* "Read the names": every answer is read as it was meant, through any     *)
(* chain of pointers.                                                      *)
NamesAreRead ==
  \A i \in DOMAIN answers :
    /\ answers[i].name = Text(meant[i].owner)
    /\ answers[i].rdata = IF meant[i].type = "A" THEN meant[i].data
                          ELSE Text(meant[i].data)

(* So it is when the names of the reply, the aliases among them, are       *)
(* readable.                                                               *)
ReadAsMeant == AllReadable => NamesAreRead

(* At the end the addresses of the reply are recorded, all of them, in     *)
(* their order, and nothing else.                                          *)
AddressesFound ==
  AllReadable /\ pc = "done" =>
    aResult = FlattenSeq([i \in DOMAIN meant |->
                            IF meant[i].type = "A" THEN <<meant[i].data>> ELSE << >>])

(* Readable names of the greatest length, owners and what aliases lead to, *)
(* fit what ReadName allocates, with the lengths that become dots and the  *)
(* 0 behind them, and no reading leaves the message.                       *)
NeverAstray == AllReadable => pc # "undefined"
=============================================================================
