# A TLA+ model of PenloopGather

PenloopGather is a C++ server that takes scan jobs from clients. For each job it
resolves the names `<dictionary entry>.<target>` with a pool of threads, tries
the ports 80, 8081 and 8080 of every host it found, and asks the first open one
for its page. This directory holds a model of the program, the configurations
that check it with TLC, and proofs about it that TLAPS checks. All line numbers
are those of `src/`.

## 1. The system

```
main -- ServerClass::startServer --fork--> server --fork--> session (one for each client)
                                                              |
   _loadSubDomain, recv, _authUser, _createJob  --- MysqlClass, Mystr
                                                              |
   _runDnsThread -- dns::runThread -- Mythread -- threadRequest x threads
        for each result: _getDomainInfo
             -- MyportScan::runThread -- Mythread -- _scanPort x threads
             -- http (getRequest, getTitle, getResponse)
```

| component | state | operations | talks to |
|---|---|---|---|
| `ServerClass`, processes | the two pids, the sockets, pending SIGCHLD | `startServer`, `_signalHandler` | clients, the kernel |
| `ServerClass`, session | `_clientData`, `_dnsSubDomains`, `_jobID`, `_dnsResult` | `_loadSubDomain`, `_authUser`, `_sendFail`, `_createJob`, `_runDnsThread`, `_getDomainInfo` | MysqlClass, dns, MyportScan, http |
| `ServerClass`, configuration | `_Config` | `_loadConfig`, `_readConfig` | `pls.conf` |
| `Mythread` | the vector of threads, its size | `setThreads`, `runThreads`, `setJoin`, (`setDetach`) | both scanners |
| `dns`, scan | the static `threadLock`, `_mutex`, `_currentHostname`, `_buff`, `dnsSock`, `_aResult` | `runThread`, `threadRequest`, `requestDnsServer`, `getResult`, (`request`) | the name server, over UDP |
| `dns`, messages | `_buff`, `_qname`, `_reader`, `_answers` | `setDnsHeader`, `setQname`, `setQinfo`, `ReadName` | the scan |
| `MyportScan` | `_portList`, the static `_it`, `_portScanMutex`, `_openList` | `setHost`, `addPort`, `runThread`, `_scanPort`, `getOpenList`, (`isOpen`) | the hosts, over TCP |
| `http` | the curl handle's options, `_requestHeaders`, `_responseHeader`, `_responseBody`, `_title` | constructor, `setURL`, `getRequest`, `postRequest`, `addRequestHeaders`, `getTitle`, `cleanUp`, destructor | the hosts, through curl |
| `MysqlClass` | the connection's handle | `connect`, `select`/`exec`, `insert`, `update`, `close` | the database |
| `Mystr` | none | `_checkStr`, (`_replaceStr`) | the session |

Operations in parentheses are never called.

What is hard in it, and what makes each component correct:

- **Name scan.** All workers share one set of buffers under one mutex, but the
  loop's condition reads the counter without it. A socket lives for one
  exchange; the answer may be late, lost, or never asked for because `sendto`
  failed. Correct means: no entry beyond the dictionary is used, every recorded
  tuple joins a number, a name and an address that belong together, no address
  that was received is missing in the end, and the scan ends.
- **Messages.** A name may be written in full or as a chain of pointers; the
  reader must advance by what stands in the record, not by what was read, and must
  not take an octet of a label for a pointer.
- **Port scan.** The same shape with an iterator instead of a counter, and that
  iterator is a function-local static which outlives the object, whose memory is
  freed. Correct means: every port is tried once, open ports are open, and the
  object is deleted only when no worker uses it.
- **Thread pool.** `std::thread`'s constructor may throw half way; joins happen
  in order while workers wait for a mutex.
- **Processes.** Deaths of sessions are announced by a signal that does not
  queue, and handled with a blocking `wait`; in the first process the handler
  competes with `waitpid`.
- **HTTP.** What a request leaves in the object is there at the next call; a
  failure comes after a part of the response was kept.
- **Session.** Eight calls in a fixed order, any of which may end the process;
  the database is used before it is connected and after it is closed, and what
  it says of the client's code is compared by address. Correct
  means: a refused client gets nothing done, nor does one whose code is of no user,
  what is reported of a host is of that host, and whatever fails the session
  ends.
- **Configuration.** Comments, text and further `=` in the file must not disturb
  the values, and numbers pass through two widths on their way to use.

PROJECT.json lists these hazards one by one, at their lines.

## 2. The modules

| module | models | extends / uses |
|---|---|---|
| `Mythread` | the pool: one action for each iteration of `runThreads` and `setJoin` | |
| `WorkQueue` | what a scan promises: items handed out in order, once, at most `Slack` numbers beyond the last one after them; over only when all are dealt with | |
| `DnsScan` | `dns::runThread` and its workers, the network | extends `Mythread`; implements `WorkQueue` |
| `PortScan` | the port scans of a job, one after another, with memory | extends `Mythread`; its first scan implements `WorkQueue` |
| `DnsMessage` | queries and answers, octet by octet | |
| `Server` | the processes, SIGCHLD, the sockets the server keeps | |
| `Http` | one `http` object, its calls and curl's outcomes | |
| `Config` | `_readConfig`, `_loadConfig`, the widths of the fields | |
| `Mysql` | the handle of `MysqlClass`, and what its operations may end with for each value of it | |
| `Session` | a session from the constructor of `ServerClass` to its exit | extends `Config`, `Mysql`; steps of `Http` |
| `MythreadProofs`, `DnsScanProofs`, `PortScanProofs`, `DnsMessageProofs`, `ServerProofs`, `HttpProofs`, `SessionProofs` | theorems | extend their module and `TLAPS`; the scans' share the facts of `MythreadProofs` |
| `SequenceFacts` | lemmas about `FlattenSeq`, selections and parts of sequences of any length | used by `HttpProofs`, `SessionProofs` and `DnsMessageProofs` |
| `MCDnsScan`, `MCPortScan`, `MCDnsMessage`, `MCSession` | values of the constants for TLC | extend their module |

`Server` and `Http` are checked directly. Definitions whose names end in
`_mutant` are the plausible slips each property is shown to notice; no
specification uses them.

How state and actions correspond to the code:

- **`Mythread`**: `caller` is the thread in `runThread` (`spawn`, `join`,
  `done`; `terminated` is the whole process), `started` and `joined` the two loop
  variables, `pc[t]` where worker t is. `setThreads` is the operator
  `SetThreads`: an upper limit of 100, no lower one.
- **`DnsScan`**: a worker's locations follow `threadRequest`: `while` (285),
  `lock` (286), `claim` (289-295), `request` (258-271), `recv` (272), `record`
  (297-366). The unguarded read of the counter is an action of its own, so that
  every interleaving with `lock()` is there; the code between `lock` and
  `unlock` is cut where it waits (`recvfrom`) or where it can fail. A name is
  the number of its entry. Beyond the dictionary, memory yields some name
  (`Claim`) or the process ends (`ClaimCrashes`). `network` holds answers under
  way by the local port they go to.
- **`PortScan`**: addresses are numbers; the current `_portList` occupies
  `base .. base+PortCount-1`, every other address holds any value.
  `NextHost` is `delete(PortScan)` and the next call of `_getDomainInfo`.
- **`Server`**: `client[c]` follows one request from the listen queue to the
  session's death; `pending` and `handling` are SIGCHLD and `_signalHandler` in
  the server, `parentPending` and `parentReaped` in the first process.
- **`DnsMessage`**: `Query` is `setDnsHeader`, `setQname` and `setQinfo`;
  `AddAddress` and `AddAlias` are the name server, which may write every name in
  every legal way and remembers where names stand; `ParseAnswer` is one pass of
  the loop at 301-325, `Record` the loop at 329-351. `ReadName` is translated as
  the two loops it has: `Collect` with `Count` (the octets, and the steps the
  reader advances), then `Undot` (lengths moved behind their labels as dots). Both
  loops are a `Follow`: what stands at a place put together with what stands at the
  place it leads to, over a bounded number of links (a recursive function, which the
  prover can unfold). `Names` are what the protocol allows: labels of 1 to 63 octets of
  any value, 255 octets in all. Line 207 tests every octet it passes for a pointer and line 205
  for the end, label or not, so `Stop` looks for them anywhere, and a name with a 0 or an
  octet of 192 or above in a label is read as whatever `Link` leads to; where that
  leaves the message or the room there is, `ParseAstray` ends the behaviour.
  `Readable` names have neither in their labels, and what is claimed of the reading is
  claimed of replies with readable names (`AllReadable`).
  `DnsScan` treats a message as a name with a set of records: `DnsMessage` shows
  that the code reads that set out of the octets, for such replies.
- **`Config`**: a file is a sequence of lines, a line a sequence of words, in which
  `#`, `=` and blanks are words too. A line `Sets` a key if it is not a comment and
  has the key, and nothing else, in front of its first `=`; `ReadConfig` is the loop
  of `_readConfig`: what the first such line has behind it, "NULL" if there is none.
  `LoadConfig` adds `atoi` and the conversions to unsigned short.
- **`Mysql`**: `handle` is `_mysqlPoint`: "unset" before `connect`, "null" behind it,
  because `connect` sets it to NULL, gives that to `mysql_real_connect` and drops the
  handle that returns (MysqlClass.cpp:28-29); "open" is what a right `connect` would
  leave, and `Close` would close. Each operation has its `Outcomes` for the
  handle it finds: success or failure for an open one, `Misuse` for the others, which is
  what may come of a call the library does not define. `Exec` takes the 0 of a query
  that succeeded for a failure and returns NULL (line 53). `Insert` may store the row
  and crash afterwards, at the call that asks for its number (line 106). With
  `Misuse = {"crash", "fail", "ok"}` the model allows more than any one library does, so
  that what holds does not depend on the library.
- **`Session`**: `pc` follows the constructor and then the child's branch of
  `startServer` (ServerClass.cpp:61-82), one step for each call that may fail or wait. `Load` is `_loadSubDomain`; `Receive` is the one `recv`, of
  whatever has arrived; `ConnectMySQL` to `SelectNothing` are `_authUser`, `Refuse`
  is `_sendFail`, which exits and so does not return to its caller; `CreateJob`
  ignores what `insert` returns. `Resolve` stands for a whole `dns::runThread` with
  the results `DnsScan` allows, the overrun included; `NothingOpen` and `PortOpen`
  for a port scan with what `PortScan` allows: the first scan reports open ports, a
  later one, with its stale iterator, any. A host's name has the form it has at
  the moment: as `sprintf` made it, with the dot that `changeToDnsNameFormat` appends in
  place (dns.cpp:126) before line 342 records it, and with `http://` in front and the last
  character gone, as ServerClass.cpp:333-334 rewrite it: that this is the dot and
  nothing else is part of `InfosBelong`. Only the first port of the list is looked
  at (the `break` at line 345), with an `http` object of its own, whose calls are the
  actions of `Http` (`Page`). `infos` is a history: the code discards what
  `_getDomainInfo` returns. The comparison `mysqlRow[0] == "2"` (line 230) is of two
  addresses and never true (`SamePointer`): `Select` has the refusal of the code, for
  a code that the first row says is of no user, and never takes it; the `strcpy` in `_sendFail`
  is of a buffer onto itself. A missing `pls.conf` exits in the constructor
  (`NoConfig`). A page whose last node is the title tag makes `getTitle` run off its end
  (`PrintTitleAtEnd`), as in `Http`.
- **`Http`**: `kept` is `_responseHeader` and `_responseBody`, which
  grow together. What the code leaves dangling is state: `headers = "freed"` is the
  pointer that `cleanUp` keeps, and `posting` the option of curl that points into the
  string `postRequest` was given, which curl does not copy (http.cpp:124).
  `UseFreed` is any later use of either, and leads to the phase `undefined`; so does
  `TitleAtEnd`, where `it++` (http.cpp:161) comes to the end of the tree because the
  title tag was the last node. A tag that ends one page and is followed by another one
  takes the first text of that one (`TitleOf`).

## 3. What is checked

| run | bounds | what it shows |
|---|---|---|
| `dns_pool` | 3 workers, 2 entries, 4 local ports | overrun by at most (workers - 1) entries; tuples belong together; nothing received is lost; nobody is left when `runThread` returns; it returns; the scan implements `WorkQueue` |
| `dns_overrun` | 2 workers, 2 entries | **fails**: an entry beyond the dictionary is used |
| `dns_late` | 1 worker, ports reused | **fails**: a late answer is recorded under the next name |
| `ports_job` | 3 workers, 2 ports, 2 hosts, 2 places in memory | the first scan is complete, right, and implements `WorkQueue`; every object is deleted when nobody uses it; every scan ends |
| `ports_stale` | 1 worker, 3 ports, 2 hosts | **fails**: the second scan does not try its ports |
| `server_processes` | 4 clients, 3 descriptors, a socket that accepts | `wait` in the handler never blocks; the handler returns; every client is accepted until the descriptors are used up; the first process returns |
| `server_zombies` | 3 clients | **fails**: a dead session is never reaped |
| `message_parse` | up to 2 records, 2 hosts, 4 alias targets | whatever way readable names are written, the reader stays in step and reads what was meant; the longest name fits |
| `message_octets` | the same | **fails**: an alias to a label with an octet of 192 is read as another name |
| `http_object` | 3 requests, 3 pages | parts of responses are never seen, titles do not outlive their responses |
| `session_any` | some 150 files, 2 entries, 3 addresses, 2 ports, every outcome of a misused library | a file is read as written; a malformed code gets nothing; what is reported of a host is its own; the session ends, and leaves its client waiting only when it exited or crashed |
| `session_permission` | the same, the library's calls succeed | **fails**: a well-formed code of no user gets a job and a scan |

The runs marked **fails** check what a comment of the code says, or what its own
guard is for; PROJECT.json quotes it under "findings".

Why the bounds are enough. The overrun needs two workers behind the same last
entry, and three show that it adds up; more entries than two only repeat the
body. A late answer can be confused with the query before, so two names
suffice, and four ports leave room for every answer under way. In `ports_job`
there are more workers than ports, and the second list is at the address of the
first, or below it, or above it: then the stale iterator is at its end, beyond it,
or before it in memory of any content. Four clients allow a death while a signal is
pending, another while the handler runs, and one more afterwards; with descriptors for
three of them the limit is reached. Two records
after the question give every shape a reader can meet: a pointer into the
question, into an earlier record's data, and a pointer that leads to a pointer;
the names include the longest host that fits `hostBuff`, the longest name the
protocol allows, one with the octets next to those that `ReadName` mistakes (1 and
191), and one with such an octet. A record behind that one is read out
of step. The files of `session_any` are all those of one or two lines out
of twelve that try the reader (comments, text without `=`, a second `=`, blanks on
either side, numbers at and beyond the widths) and one whole file with a repeated
key; a result needs its predecessor to go wrong, and one entry has two addresses,
so there are up to three results, and four with the name beyond the dictionary.
Three requests are one more than it takes to mix up two pages, of which one may have
a title, one none, and one end with the tag.
The bounds that are not sizes of the system are constants of the modules:
`MaxAnswers`, `MaxRequests`, `MaxTitle` (the titles collected in one object),
`Hosts` and `Bases` (how many scans a job makes, and where their lists may lie).
The runs use neither symmetry nor state constraints; deadlock is checked in all
of them, an explicit `Ended` action marking the states where the program may stop.

Fairness. `DnsScan` and `PortScan` assume that every thread that can run is
scheduled: weak fairness for the calling thread and for each worker, none for the
name server, which need not answer: `Timeout` is the worker's own step (the
receive timeout of two seconds, dns.cpp:264), as is the end of `connect`.
`std::mutex` is not fair, and none is assumed: the scans still end, because every
turn of the critical section uses up an entry. `Server` assumes that both
processes run and that pending signals are delivered, nothing about the sessions.
`Http` assumes nothing: its properties are of safety only. `Session` assumes that its process is scheduled, that calls of the
database library return or crash, and that curl's timer runs
(`CURLOPT_TIMEOUT`, http.cpp:73); nothing of the client, which is why `SessionEnds` starts when `recv` has returned.

## 4. What is proved

For every value of the constants:

- `DnsScanProofs` (assuming `ThreadNumAssumption` and `DnsAssumption`):
  `TypeCorrect`, `OverrunBounded`, `QuietAtTheEnd`; `OneWorkerStaysInside` when
  `SetThreads(ThreadNum) = 1`; `RecordsBelong` and `RecordsComplete` when
  `~PortReuse`. All follow from one inductive invariant, `IInv`. The types alone
  say nothing of what the properties are about; `IInv` adds
  - `Guarded`: the critical section is held by one worker (`mutex` names whoever is in
    it), without which no shared buffer can be said to hold anybody's data;
  - `PoolInOrder`: threads not started are "new", joined ones
    "exited", which carries QuietWhenDone through the joins;
  - `Overrun`: once the counter is at the dictionary's end, the counter plus the
    number of workers that passed the while condition and have not claimed yet
    (`Stale`) stays below entries plus threads. This makes the overrun bound
    inductive; the bound itself is not, nor is the type of the counter without it;
  - `BuffersClean`, `BuffersOwned`, `AnswersOwned`: between two holders the shared
    name is empty; under a holder the shared name, its own copy and the query in
    `_buff` are the entry before the counter, and whatever answers are under way to
    the open socket are about it. `AnswersOwned` needs `~PortReuse`: `dns_late` is what happens
    without it;
  - `HeardKept`: what was heard was recorded, or is in `_buff` on its way to be.

  The same module has the refinement of `WorkQueue`, `ScanImplementsQueue` (when
  `SetThreads(ThreadNum) >= 1`). What is handed out is the
  counter itself, what is in hand the number before it, also where they are beyond the
  dictionary: `WorkQueue` grants that with its `Slack`, which is one less than there are
  workers here. That this is enough needs `Overrun`, and that the
  scan is over only when all was dealt with needs `LeftAtEnd`: a worker leaves the
  loop only at the end of the dictionary. Without a worker, as `threads = 0`
  in `pls.conf` makes it (ServerClass.cpp:147), the scan returns at once, which is
  why the assumption is there.
- `PortScanProofs` (assuming `ThreadNumAssumption` and `PortAssumption`):
  `TypeCorrect` and `QuietAtTheEnd` for every scan of a job, whatever the stale
  iterator points to; `OpenIsOpen` for the first; and with at least one worker
  `FirstScanTriesAll` and the refinement `FirstScanImplementsQueue`, without slack. The invariant
  that carries them is `FirstInOrder`: while the first scan runs the iterator stays
  in the list, what was tried is the ports before it, in order, a worker that
  connects holds the port it was handed, and a worker leaves only at the end. It says
  nothing of later scans: `ports_stale` shows that it is false there.
- `MythreadProofs` holds what both scans need of the pool: threads start and are
  joined in order, a step of the caller or of a worker keeps that, and all have
  left when the caller is done.
- `ServerProofs` (assuming `ServerAssumption`): `TypeCorrect` and
  `HandlerNeverBlocks`. The invariant says that whenever a signal is pending or
  being handled there are as many dead sessions for them: two if a second death
  is signalled while the first is handled. One signal may stand for more deaths
  than that, which is why the handler does not block and also why it leaves zombies.
- `HttpProofs`: `TypeCorrect`, `PartsAreNeverSeen` and `TitlesGoWithResponses`, for
  any pages and any number of requests. Only the response under way can be a part, and
  it is the last (`PartIsLast`): it becomes complete, or the process ends. What
  `getTitle` finds is put together from the pages that are kept.
- `DnsMessageProofs` (assuming `MessageAssumption`: names within the protocol's lengths,
  hosts without a 0 or a dot in a label, as the text of a C string gives them, at most 20
  records): `QuestionIsTheName` and `MessageTypes` for labels of any octets;
  `AnswersAreMeant`, `ReaderInStep`, `AllAddresses` and `RoomForNames` for replies whose
  names are readable, which is a premise of the properties themselves (`AllReadable`) and not
  of the constants: `message_octets` shows that they need it. Whatever mixture of full
  names and pointers the name server writes. The argument:
  - what is written: `changeToDnsNameFormat` of a name's text is its wire form
    (`ToDnsIs`);
  - what is read: the second loop of `ReadName` turns a wire form into its text,
    with a dot at its end that is then removed (`UndotIs`), and the first loop collects the
    wire form of whatever readable name stands at an offset (`CollectIs`), because the octets
    of its labels are not among those that `Stop` looks for (`ReadableWire`). A pointer leads to a smaller offset, where a name
    stands too, so this goes by induction over the offset; as many links as the
    message has octets are always enough. `NeverAstray` follows, because what is
    collected never has more octets than the name, owner or data of an alias;
  - `KnownAt`: every place the name server may point to has its name written there, and
    this stays so when the message grows, or when the count in the header changes;
  - `Laid`: every record stands between the end of the one before it and its own end,
    with its owner, its type and its data, each name in one of its encodings.
    `Read`: the reader is at the beginning of the next record, and what was
    read is what was meant. The invariant has it as `AllReadable => Reading`, because
    what the name server means does not change while it is read.

  The properties alone are not inductive: they say nothing of what is in
  the message behind the reader, which is all that the next step depends on. That the 14
  bits of a pointer suffice is part of the proof: 20 records, each as long as it can be,
  make less than 16384 octets (`Sizes`).
- `SequenceFacts` has what these proofs need of sequences. `FlattenSeq` is a
  fold in the community modules: its members are the members of its parts, and it
  goes through concatenation;
  selections pick a least or greatest index; sub-sequences can be split and joined. The library's induction theorems take an operator and cannot be used, but the
  fold is defined by recursion over finite sets, and a least counterexample does instead:
  a set of naturals that holds 0 and is closed under successor holds every natural
  (`Induct`), stated of sets.
- `SessionProofs` (assuming `SessionAssumption` and `NumberAssumption`):
  `OnlyGoodCodesAreServed`, whatever the library does, since behind `Check` the code is
  well-formed and before it nothing was done (`OnlyForGood`); that it be of a user is
  not true, as `session_permission` shows. `ReportsBelong`, for any dictionary, any pages and
  any number of results; `TypeCorrect`; and, for any file, `FileIsRead`: every key has
  what stands behind the first line that sets it. `ReportsBelong` and `TypeCorrect` follow
  from one invariant, `IInv`: `Progress` says how far the loop
  over the results came at each step (without it nothing relates the number of reports
  to that of results), and `AboutCurrent` that the HTTP object in use was made for the
  current host, with nobody else's responses or titles in it.

Only model-checked: what holds under fairness (`ScanEnds`, `AllScansEnd`,
`HandlerReturns`, `EveryClientAccepted`, `ParentReturns`, `SessionEnds`), which is beyond this prover. Every other property of the runs that
pass is a theorem.

## 5. What is not modelled, and limits

- As the code is, `MysqlClass` uses the client library as the library does not
  define it in every call, and a real one will crash or fail. What comes of that is the
  constant `Misuse`, so no run is about it: without "ok" in it no job can be made, by the
  constant alone. What `session_any` says of later steps holds for
  whatever the library does, a right answer included. Its calls are
  taken to return. `Mysql` abstracts the statements to whether they took effect.
- `Session` has one scan of names and of ports as a step each: what happens
  inside them is the matter of `DnsScan` and `PortScan`, and the results a scan may
  leave are restated, not composed. A client that disconnects is not noticed by the
  code before `_sendFail`, whose `send` could then raise SIGPIPE, which is left out.
- A client for which `fork` fails is `dropped` in `Server`: its socket stays open, as
  every client's does, and nobody serves it or tells it. `EveryClientAccepted` is
  about `accept` and counts it as accepted; no document or comment of the code says
  what should become of it.
- The database's port passes through the `short` of `MysqlClass::connect`
  (MysqlClass.cpp:27) on its way from an unsigned short (GLOBAL.h:19): configured
  values from 32768 to 65535 turn negative. No property is about the number, since no
  connection is ever opened with it.
- `session_permission` has a library whose calls succeed, so that it is the comparison
  at line 230 and nothing else that lets the code of no user through. Which of the
  rows of `pls_user` comes first is not modelled: for a known code the first row may say
  either.
- As the code is, no session begins either, because the server's socket is a
  datagram socket (ServerClass.cpp:32), on which accept never succeeds: the constant
  `SocketAccepts` would be FALSE. It is TRUE in both runs of `Server`, which are about
  what comes after; no run is spent on the other value, in which the server only
  repeats `AcceptAgain`. The server never closes its copy of a client's socket:
  in `server_processes` the fourth client is not accepted, and `EveryClientAccepted`
  promises nothing beyond the limit.
- The termination of the process by `std::thread`'s constructor, and the exits and
  crashes of a session, count as ends in the properties about ending: the code says
  nowhere what should become of the work that is left.
- `MysqlClass::~MysqlClass` is private (MysqlClass.h:23) although `ServerClass` has
  a member of that class, so the sources do not compile as they stand.
- What is claimed of reading a reply holds if no label of its names has a 0 or an
  octet of 192 or above. Labels of other octets, accented or UTF-8 text among
  them, are legal and may be misread: `message_octets` shows one that is. `ParseAstray` stands for what
  happens when the reading leaves the message or the room of 256 octets; what it
  finds there is not modelled.
- `DnsMessage` has well-formed messages with address and alias records, at most 20
  of them. On anything else the code is undefined: more answers than `_answers`
  holds, other types, whose data is read as a name, the root name, truncated messages.
- In `DnsScan` the counter is read and written whole, as the build does
  (g++ without optimisation, x86-64), although the unguarded read is a data race.
- Signals other than SIGCHLD, and SIGCHLD for stopped sessions, are left out.
- `Http`: that a handle is never freed (http.cpp:233) has no effect on any behaviour.
  Posting after a `postRequest` (http.cpp:123-124) and `cleanUp` before the destructor,
  which frees the list of headers twice, are in the actions and lead to the phase
  `undefined`; the program makes neither call.
  A page has at most one title tag, and the text of a title is known by its page.
  `getTitle` appends to what it found before, so that `_getDomainInfo`, which calls
  it twice (ServerClass.cpp:338-339), keeps every title doubled: `MaxTitle` is 2 in
  `Session` for that. `setCookie` sets an option nothing else depends on.
- Never called, and left out: `dns::request`, `Mythread::setDetach`,
  `MyportScan::isOpen`, `Mystr::_replaceStr`, `MysqlClass::update`,
  `ServerClass::_saveResult`.

## 6. Plan

1. *Done*: the pool, both scans with their abstract specification, the
   processes, the messages, the HTTP object, the configuration, the database's
   operations, and the session that joins them.
2. *Done*: types and safety of every component proved, the refinement of `WorkQueue`
   by both scans, that parts of responses are never seen and titles not mixed up, that
   clients with malformed codes get nothing, that what is reported of a host is its own,
   that answers with readable names are read as they were meant, and the file as it is written.
3. Left: records of other types in `DnsMessage`, with what the code reads out of their
   data; the scans composed into `Session` in place of what they may leave behind.
