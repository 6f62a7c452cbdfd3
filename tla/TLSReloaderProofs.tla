------------------------- MODULE TLSReloaderProofs --------------------------
(***************************************************************************)
(* Theorems about TLSReloader, for any number of versions and with any     *)
(* changes of the files at any time: its types, and that no certificate is *)
(* replaced by an older one unless a reload overlaps the first load; and   *)
(* that otherwise the pair on disk is served if files are written in place.*)
(***************************************************************************)
EXTENDS TLSReloader, TLAPS

(* What fsnotify makes of a queue is a queue.                              *)
LEMMA QueueTypes ==
    ASSUME NEW Kind, NEW q \in Seq(Kind), NEW kind \in Kind, NEW w \in BOOLEAN
    PROVE  /\ Dropped(q) \subseteq Seq(Kind)
           /\ AfterAdd(w, q) \subseteq Seq(Kind)
           /\ AfterChange(w, q, kind) \subseteq Seq(Kind)
<1>1. ASSUME NEW r \in Dropped(q)
      PROVE  r \in Seq(Kind)
  <2>1. CASE r = <<>>
    BY <2>1
  <2>2. CASE r # <<>>
    <3>1. PICK n \in DOMAIN q \cap {1} : r = <<q[n]>>
      BY <2>2 DEF Dropped
    <3>2. q[n] \in Kind
      BY <3>1
    <3>. QED
      BY <3>1, <3>2
  <2>. QED
    BY <2>1, <2>2
<1>2. ASSUME NEW r \in Reported(q, kind)
      PROVE  r \in Seq(Kind)
  BY <1>2 DEF Reported
<1>. QED
  BY <1>1, <1>2 DEF AfterAdd, AfterChange

(* What the steps do to fsnotify's state, for the kinds of events there    *)
(* have been: Add and Remove report none, and a change only its own.       *)
LEMMA WatchTypes ==
    ASSUME NEW Kind, "write" \in Kind, watched \in [File -> BOOLEAN], events \in [File -> Seq(Kind)],
           NEW f \in File
    PROVE  /\ Add(f) => watched' \in [File -> BOOLEAN] /\ events' \in [File -> Seq(Kind)]
           /\ \A q \in Dropped(events[f]) : [events EXCEPT ![f] = q] \in [File -> Seq(Kind)]
           /\ \A kind \in Kind : Reports(f, kind) => events' \in [File -> Seq(Kind)]
<1>1. watched[f] \in BOOLEAN /\ events[f] \in Seq(Kind)
  OBVIOUS
<1>2. /\ Dropped(events[f]) \subseteq Seq(Kind)
      /\ AfterAdd(watched[f], events[f]) \subseteq Seq(Kind)
      /\ \A kind \in Kind : AfterChange(watched[f], events[f], kind) \subseteq Seq(Kind)
  BY <1>1, QueueTypes
<1>. QED
  BY <1>2 DEF Add, Reports

----------------------------------------------------------------------------
(* Types, whatever the operator does and when                              *)

HaveRead == \A p \in Process : HasRead(p) => got[p] \in Version

LEMMA LoadTypes ==
    ASSUME TypeOK, HaveRead, NEW p \in Process, Load(p)
    PROVE  TypeOK' /\ HaveRead'
<1>0. "cert" \in File /\ disk["cert"] \in Version /\ 0 \notin Version
  BY DEF TypeOK, File, Version
<1>1. CASE ReadCert(p)
  BY <1>0, <1>1 DEF TypeOK, HaveRead, HasRead, ReadCert, LoadFails, Goto, diskVars, fsVars
<1>2. CASE ReadKey(p)
  BY <1>2 DEF TypeOK, HaveRead, HasRead, ReadKey, LoadFails, Goto, diskVars, fsVars
<1>3. CASE StorePair(p)
  <2>1. served' \in Version
    BY <1>3 DEF HaveRead, HasRead, StorePair
  <2>. QED
    BY <1>0, <1>3, <2>1 DEF TypeOK, HaveRead, HasRead, StorePair, Goto, diskVars, fsVars
<1>. QED
  BY <1>1, <1>2, <1>3 DEF Load

LEMMA WatchFileTypes ==
    ASSUME TypeOK, HaveRead, NEW f \in File, NEW next \in {"key", "load"}, WatchFile(f, next)
    PROVE  TypeOK' /\ HaveRead'
<1>1. watched' \in [File -> BOOLEAN] /\ events' \in [File -> Seq(EventKind)]
  <2>1. CASE Add(f)
    BY <2>1, WatchTypes DEF TypeOK, EventKind
  <2>2. CASE UNCHANGED fsVars
    BY <2>2 DEF TypeOK, fsVars
  <2>. QED
    BY <2>1, <2>2 DEF WatchFile
<1>. QED
  BY <1>1 DEF WatchFile, TypeOK, HaveRead, HasRead, Process, diskVars

LEMMA WatchLoopTypes ==
    ASSUME TypeOK, HaveRead, WatchLoop
    PROVE  TypeOK' /\ HaveRead'
<1>1. ASSUME NEW f \in File, NEW kind \in EventKind, NEW s \in {"cert", "unwatch"},
             Receive(f, kind), Goto("Watcher", s), raced' \in BOOLEAN
      PROVE  TypeOK' /\ HaveRead'
  <2>1. events' \in [File -> Seq(EventKind)]
    BY <1>1 DEF Receive, TypeOK
  <2>. QED
    BY <1>1, <2>1 DEF Receive, Goto, TypeOK, HaveRead, HasRead, Process, diskVars
<1>2. CASE StopWatching
  <2>1. PICK q \in Dropped(events[working]) : events' = [events EXCEPT ![working] = q]
    BY <1>2 DEF StopWatching
  <2>2. [events EXCEPT ![working] = q] \in [File -> Seq(EventKind)]
    <3>1. watched \in [File -> BOOLEAN] /\ events \in [File -> Seq(EventKind)] /\ working \in File
      BY DEF TypeOK
    <3>2. "write" \in EventKind
      BY DEF EventKind
    <3>. QED
      BY <2>1, <3>1, <3>2, WatchTypes
  <2>. QED
    BY <1>2, <2>1, <2>2 DEF StopWatching, Goto, TypeOK, HaveRead, HasRead, Process, diskVars
<1>3. CASE RearmWatch
  <2>1. watched' \in [File -> BOOLEAN] /\ events' \in [File -> Seq(EventKind)]
    <3>1. CASE Add(working)
      BY <3>1, WatchTypes DEF TypeOK, EventKind
    <3>2. CASE UNCHANGED fsVars
      BY <3>2 DEF TypeOK, fsVars
    <3>. QED
      BY <1>3, <3>1, <3>2 DEF RearmWatch
  <2>. QED
    BY <1>3, <2>1 DEF RearmWatch, Goto, TypeOK, HaveRead, HasRead, Process, diskVars
<1>. QED
  BY <1>1, <1>2, <1>3, LoadTypes DEF WatchLoop, FileWritten, FileRemoved, EventKind, Process,
     TypeOK

LEMMA OperatorTypes ==
    ASSUME TypeOK, HaveRead, Operator
    PROVE  /\ TypeOK' /\ HaveRead'
           /\ disk'["cert"] >= disk["cert"]
<1>1. UNCHANGED <<boot, procVars, served, raced>>
  BY DEF Operator
<1>2. PICK f \in File : Remove(f) \/ \E v \in Version : WriteInPlace(f, v) \/ Replace(f, v) \/ Create(f, v)
  BY DEF Operator
<1>3. /\ disk' \in [File -> Version] /\ present' \in [File -> BOOLEAN]
      /\ disk'["cert"] >= disk["cert"]
  <2>1. CASE Remove(f)
    BY <2>1 DEF Remove, TypeOK, Version, File
  <2>2. ASSUME NEW v \in Version, WriteInPlace(f, v) \/ Replace(f, v) \/ Create(f, v)
        PROVE  /\ disk' \in [File -> Version] /\ present' \in [File -> BOOLEAN]
               /\ disk'["cert"] >= disk["cert"]
    <3>1. v > disk[f] /\ disk' = [disk EXCEPT ![f] = v] /\ present' \in [File -> BOOLEAN]
      BY <2>2 DEF WriteInPlace, Replace, Create, TypeOK
    <3>2. disk \in [File -> 1 .. MaxVersion] /\ v \in 1 .. MaxVersion /\ MaxVersion \in Nat
      BY ReloaderAssumption DEF TypeOK, Version
    <3>. QED
      BY <3>1, <3>2 DEF File, Version
  <2>. QED
    BY <1>2, <2>1, <2>2
<1>4. watched' \in [File -> BOOLEAN]
  BY <1>2 DEF Remove, WriteInPlace, Replace, Create, TypeOK, fsVars
<1>5. events' \in [File -> Seq(EventKind)]
  <2>1. Reports(f, "write") \/ Reports(f, "remove") \/ UNCHANGED events
    BY <1>2 DEF Remove, WriteInPlace, Replace, Create, fsVars
  <2>. QED
    BY <2>1, WatchTypes DEF TypeOK, EventKind
<1>6. TypeOK'
  BY <1>1, <1>3, <1>4, <1>5 DEF TypeOK, procVars
<1>7. HaveRead'
  BY <1>1 DEF HaveRead, HasRead, procVars
<1>. QED
  BY <1>3, <1>6, <1>7

LEMMA NextTypes == TypeOK /\ HaveRead /\ [Next]_vars => TypeOK' /\ HaveRead'
<1>. SUFFICES ASSUME TypeOK, HaveRead, [Next]_vars
              PROVE  TypeOK' /\ HaveRead'
  OBVIOUS
<1>1. CASE Start
  BY <1>1, WatchFileTypes, LoadTypes DEF Start, File, Process
<1>2. CASE Close
  BY <1>2 DEF Close, TypeOK, HaveRead, HasRead, diskVars, procVars
<1>3. CASE UNCHANGED vars
  BY <1>3 DEF vars, diskVars, fsVars, procVars, TypeOK, HaveRead, HasRead
<1>. QED
  BY <1>1, <1>2, <1>3, WatchLoopTypes, OperatorTypes DEF Next

(* At the start nothing runs and nothing is served.                        *)
LEMMA InitIInv == Init => IInv /\ HaveRead
<1>. SUFFICES ASSUME Init PROVE IInv /\ HaveRead
  OBVIOUS
<1>1. served = 0 /\ raced = FALSE /\ pc = [p \in Process |-> "idle"] /\ boot = "cert" /\ "Boot" \in Process
      /\ "Watcher" \in Process
  BY DEF Init, Process
<1>2. 0 <= disk["cert"]
  BY ReloaderAssumption DEF Init, File, Version
<1>3. /\ events \in [File -> Seq(EventKind)] /\ watched \in [File -> BOOLEAN]
      /\ got \in [Process -> {0} \cup Version] /\ working \in File
      /\ pc \in [Process -> {"idle", "cert", "key", "store", "unwatch", "rewatch"}]
  BY DEF Init, File, Process
<1>4. TypeOK
  BY <1>1, <1>3 DEF TypeOK, Init
<1>. QED
  BY <1>1, <1>2, <1>4 DEF IInv, HaveRead, HasRead

(* Types, even if files change while the first load runs: in particular a  *)
(* server that is up has a certificate, one whose files were a pair        *)
(* (newTLSCertificateReloader, loadLocked).                                *)
THEOREM ReloaderTypes == Spec => []TypeOK
<1>1. Init => TypeOK /\ HaveRead
  BY InitIInv DEF IInv
<1>. QED
  BY <1>1, NextTypes, PTL DEF Spec

----------------------------------------------------------------------------
(* The order of the versions                                               *)

LEMMA StepTypes ==
    ASSUME IInv, Next
    PROVE  TypeOK'
<1>1. HaveRead
  BY DEF IInv, HaveRead, TypeOK, Version, File
<1>. QED
  BY <1>1, NextTypes DEF IInv

(* loadLocked, in either goroutine: what it reads is on disk and not older *)
(* than what is served, and it stores what it read, which only another load*)
(* can have made older than what is served.                                *)
LEMMA LoadKeeps ==
    ASSUME IInv, TypeOK', NEW p \in Process, Load(p)
    PROVE  IInv' /\ (served' >= served \/ raced)
<1>0. /\ TypeOK /\ "cert" \in File /\ disk["cert"] \in Nat \ {0} /\ served \in Nat
      /\ got \in [Process -> Nat] /\ Process = {"Boot", "Watcher"}
  BY DEF IInv, TypeOK, File, Version, Process
<1>1. CASE ReadCert(p)
  BY <1>1, <1>0 DEF IInv, TypeOK, HasRead, ReadCert, LoadFails, Goto, diskVars, fsVars
<1>2. CASE ReadKey(p)
  BY <1>2, <1>0 DEF IInv, TypeOK, HasRead, ReadKey, LoadFails, Goto, diskVars, fsVars
<1>3. CASE StorePair(p)
  BY <1>3, <1>0 DEF IInv, TypeOK, HasRead, StorePair, Goto, diskVars, fsVars
<1>. QED
  BY <1>1, <1>2, <1>3 DEF Load

(* The other steps of newTLSCertificateReloader and Close.                 *)
LEMMA StartKeeps ==
    ASSUME IInv, TypeOK'
    PROVE  /\ \A f \in File, next \in {"key", "load"} : WatchFile(f, next) => IInv' /\ served' = served
           /\ Close => IInv' /\ served' = served
<1>1. ASSUME NEW f \in File, NEW next \in {"key", "load"}, WatchFile(f, next)
      PROVE  IInv' /\ served' = served
  BY <1>1 DEF WatchFile, IInv, TypeOK, HasRead, File, Process, diskVars
<1>2. Close => IInv' /\ served' = served
  BY DEF Close, IInv, TypeOK, HasRead, diskVars, procVars
<1>. QED
  BY <1>1, <1>2

(* The watching goroutine receives an event, or watches a file again.      *)
LEMMA WatchKeeps ==
    ASSUME IInv, TypeOK',
           \/ StopWatching \/ RearmWatch
           \/ \E f \in File : FileWritten(f) \/ FileRemoved(f)
    PROVE  IInv' /\ served' = served
<1>1. /\ UNCHANGED <<diskVars, boot, got, served>>
      /\ pc["Watcher"] \in {"idle", "unwatch", "rewatch"}
  BY DEF StopWatching, RearmWatch, FileWritten, FileRemoved, Receive
<1>2. \/ Goto("Watcher", "cert") /\ raced' = (boot = "load")
      \/ UNCHANGED raced /\ \E s \in {"idle", "unwatch", "rewatch"} : Goto("Watcher", s)
  BY DEF StopWatching, RearmWatch, FileWritten, FileRemoved
<1>3. boot \notin {"cert", "key"}
  BY DEF StopWatching, RearmWatch, FileWritten, FileRemoved, Receive, IInv, Process
<1>. QED
  BY <1>1, <1>2, <1>3 DEF Goto, IInv, TypeOK, HasRead, Process, diskVars

(* A file only gets newer.                                                 *)
LEMMA OperatorKeeps ==
    ASSUME IInv, TypeOK', Operator
    PROVE  IInv' /\ served' = served
<1>1. UNCHANGED <<boot, procVars, served, raced>>
  BY DEF Operator
<1>2. disk'["cert"] >= disk["cert"]
  <2>1. HaveRead
    BY DEF IInv, HaveRead, TypeOK, Version, File
  <2>. QED
    BY <2>1, OperatorTypes DEF IInv
<1>3. disk["cert"] \in Int /\ disk'["cert"] \in Int /\ served \in Int
  BY DEF IInv, TypeOK, Version, File
<1>4. \A p \in Process : HasRead(p) => got[p] \in 1 .. disk'["cert"]
  BY <1>2, <1>3 DEF IInv
<1>5. served' <= disk'["cert"]
  BY <1>1, <1>2, <1>3 DEF IInv
<1>. QED
  BY <1>1, <1>4, <1>5 DEF IInv, HasRead, procVars

(* Every step keeps the inductive invariant, and the certificate or        *)
(* replaces it by one that is not older, unless two loads overlapped.      *)
LEMMA NextKeeps ==
    ASSUME IInv, [Next]_vars
    PROVE  IInv' /\ (served' >= served \/ raced)
<1>0. served \in Nat /\ (Next => TypeOK')
  BY StepTypes, SMTT(60) DEF IInv, TypeOK, Version
<1>1. CASE Next /\ Start
  BY <1>1, <1>0, StartKeeps, LoadKeeps DEF Start, File, Process
<1>2. CASE Next /\ WatchLoop
  BY <1>2, <1>0, LoadKeeps, WatchKeeps DEF WatchLoop, Process
<1>3. CASE Next /\ Close
  BY <1>3, <1>0, StartKeeps
<1>4. CASE Next /\ Operator
  BY <1>4, <1>0, OperatorKeeps
<1>5. CASE UNCHANGED vars
  BY <1>5, <1>0 DEF vars, diskVars, fsVars, procVars, IInv, TypeOK, HasRead
<1>. QED
  BY <1>1, <1>2, <1>3, <1>4, <1>5 DEF Next

(* The inductive invariant, whatever happens to the files and when: what a *)
(* load has read that no other overlaps is not older than what is served.  *)
THEOREM ReloaderInvariant == Spec => []IInv
<1>1. IInv /\ [Next]_vars => IInv'
  BY NextKeeps
<1>. QED
  BY <1>1, InitIInv, PTL DEF Spec

(* loadLocked only replaces the certificate by an older one if a reload    *)
(* overlapped the first load, however often, when and in whatever order the*)
(* two files are written, replaced, removed and created.                   *)
THEOREM NeverReplacedByOlder == Spec => NeverOlder
<1>1. IInv /\ [Next]_vars => [served' < served => raced]_vars
  BY NextKeeps, SMTT(60) DEF IInv, TypeOK, Version
<1>. QED
  BY <1>1, ReloaderInvariant, PTL DEF Spec, NeverOlder


----------------------------------------------------------------------------
(* Files that are only written in place                                    *)

(* What is known as long as the operator does nothing else.  Both files are*)
(* watched once the goroutine may receive events, so that whatever a load  *)
(* has not seen yet has left an event ...                                  *)
WatchedSoFar ==
    /\ boot = "key" => present["cert"] /\ watched["cert"]
    /\ boot \in {"load", "up"} => \A f \in File : present[f] /\ watched[f]
    /\ events \in [File -> Seq({"write"})]
    /\ pc["Watcher"] \notin {"unwatch", "rewatch"}

(* ... and without an event both goroutines have read what is on disk, and *)
(* the last to load has stored it, unless the two overlapped.              *)
NoEvent == \A f \in File : events[f] = <<>>

SeesDisk ==
    boot \in {"load", "up"} /\ NoEvent /\ ~ raced =>
        /\ \A p \in Process : /\ pc[p] = "key" => got[p] = disk["cert"]
                              /\ pc[p] = "store" => Pair(got[p])
        /\ boot = "up" /\ pc["Watcher"] = "idle" => \A v \in Version : Pair(v) => served = v

WInv == WatchedSoFar /\ SeesDisk

(* A pair is one of one version.                                           *)
LEMMA OnePair == \A v, w : Pair(v) /\ Pair(w) => v = w
BY DEF Pair, File

(* An event is reported of a file that is watched.                         *)
LEMMA WriteIsReported ==
    ASSUME NEW f \in File, events \in [File -> Seq({"write"})], watched[f], Reports(f, "write")
    PROVE  events'[f] # <<>>
<1>1. PICK q \in Reported(events[f], "write") : events' = [events EXCEPT ![f] = q]
  BY DEF Reports, AfterChange
<1>2. q # <<>>
  BY <1>1 DEF Reported
<1>. QED
  BY <1>1, <1>2

(* loadLocked, in either goroutine.                                        *)
LEMMA LoadSees ==
    ASSUME IInv, WInv, NEW p \in Process, Load(p)
    PROVE  WInv'
<1>0. /\ pc \in [Process -> {"idle", "cert", "key", "store", "unwatch", "rewatch"}]
      /\ got \in [Process -> {0} \cup Version]
      /\ "cert" \in File /\ "key" \in File /\ File = {"cert", "key"} /\ Process = {"Boot", "Watcher"}
      /\ pc["Boot"] # "idle" => boot = "load"
  BY DEF IInv, TypeOK, Process, File
<1>1. UNCHANGED <<diskVars, fsVars, raced>> /\ (boot' \in {"load", "up"} => boot \in {"load", "up"})
  BY <1>0 DEF Load, ReadCert, ReadKey, StorePair, LoadFails
<1>2. \A q \in Process : q # p => pc'[q] = pc[q] /\ got'[q] = got[q]
  BY <1>0 DEF Load, ReadCert, ReadKey, StorePair, LoadFails, Goto
<1>3. /\ \A v : Pair(v)' <=> Pair(v)
      /\ NoEvent' <=> NoEvent
  BY <1>1 DEF Pair, NoEvent, diskVars, fsVars
<1>4. WatchedSoFar'
  BY <1>0, <1>1 DEF WInv, WatchedSoFar, diskVars, fsVars, Load, ReadCert, ReadKey, StorePair,
     LoadFails, Goto
<1>. SUFFICES ASSUME boot' \in {"load", "up"}, NoEvent, ~ raced
              PROVE  /\ pc'[p] = "key" => got'[p] = disk["cert"]
                     /\ pc'[p] = "store" => Pair(got'[p])
                     /\ boot' = "up" /\ pc'["Watcher"] = "idle" => \A v : Pair(v) => served' = v
  BY <1>1, <1>2, <1>3, <1>4 DEF WInv, SeesDisk, diskVars
<1>5. /\ \A f \in File : present[f]
      /\ pc[p] = "key" => got[p] = disk["cert"]
      /\ pc[p] = "store" => Pair(got[p])
  BY <1>1 DEF WInv, WatchedSoFar, SeesDisk
<1>6. CASE ReadCert(p)
  BY <1>0, <1>5, <1>6 DEF ReadCert, Goto, IInv
<1>7. CASE ReadKey(p) /\ disk["key"] = got[p]
  <2>1. Pair(got[p]) /\ got' = got /\ pc'[p] = "store" /\ boot' = boot
    BY <1>0, <1>5, <1>7 DEF ReadKey, Goto, Pair
  <2>. QED
    BY <1>0, <1>7, <2>1 DEF ReadKey
<1>8. CASE ReadKey(p) /\ disk["key"] # got[p]
  <2>1. \A v : ~ Pair(v)
    BY <1>0, <1>5, <1>8 DEF ReadKey, Pair
  <2>. QED
    BY <1>0, <1>8, <2>1 DEF ReadKey, LoadFails, Goto
<1>9. CASE StorePair(p)
  <2>1. served' = got[p] /\ Pair(got[p]) /\ pc'[p] = "idle"
    BY <1>0, <1>5, <1>9 DEF StorePair, Goto
  <2>. QED
    BY <2>1, OnePair
<1>. QED
  BY <1>6, <1>7, <1>8, <1>9 DEF Load

(* The files are watched, then the first load begins.                      *)
LEMMA WatchFileKeeps ==
    ASSUME IInv, WInv, WatchFile("cert", "key") \/ WatchFile("key", "load")
    PROVE  WInv'
<1>0. /\ pc \in [Process -> {"idle", "cert", "key", "store", "unwatch", "rewatch"}]
      /\ pc["Watcher"] = "idle" /\ pc["Boot"] = "idle" /\ File = {"cert", "key"}
      /\ watched \in [File -> BOOLEAN] /\ events \in [File -> Seq({"write"})]
  BY DEF IInv, TypeOK, Process, File, WatchFile, WInv, WatchedSoFar
<1>1. events' \in [File -> Seq({"write"})]
  <2>1. ASSUME NEW f \in File, Add(f) PROVE events' \in [File -> Seq({"write"})]
    BY <1>0, <2>1, WatchTypes
  <2>. QED
    BY <1>0, <2>1 DEF WatchFile, fsVars
<1>2. pc'["Watcher"] = "idle" /\ boot' # "up" /\ pc'["Boot"] \in {"idle", "cert"}
  BY <1>0 DEF WatchFile, Process
<1>3. WatchedSoFar'
  BY <1>0, <1>1, <1>2 DEF WInv, WatchedSoFar, WatchFile, Add, diskVars, fsVars
<1>. QED
  BY <1>2, <1>3 DEF WInv, SeesDisk, Process

(* An event makes the goroutine load, and there is none that is not of a   *)
(* write.                                                                  *)
LEMMA ReceiveKeeps ==
    ASSUME IInv, WInv, NEW f \in File, FileWritten(f) \/ FileRemoved(f)
    PROVE  WInv'
<1>0. /\ pc \in [Process -> {"idle", "cert", "key", "store", "unwatch", "rewatch"}]
      /\ Process = {"Boot", "Watcher"} /\ events \in [File -> Seq({"write"})]
      /\ pc["Boot"] # "idle" => boot = "load"
  BY DEF IInv, TypeOK, Process, WInv, WatchedSoFar
<1>1. ~ FileRemoved(f)
  BY <1>0 DEF FileRemoved, Receive
<1>2. /\ pc' = [pc EXCEPT !["Watcher"] = "cert"] /\ UNCHANGED <<diskVars, watched, boot, got, served>>
      /\ events[f] # <<>> /\ events' = [events EXCEPT ![f] = Tail(@)]
      /\ raced' = (boot = "load")
  BY <1>1 DEF FileWritten, Receive, Goto
<1>3. events' \in [File -> Seq({"write"})]
  BY <1>0, <1>2
<1>4. WatchedSoFar'
  BY <1>0, <1>2, <1>3 DEF WInv, WatchedSoFar, diskVars
<1>5. SeesDisk'
  BY <1>0, <1>2 DEF SeesDisk
<1>. QED
  BY <1>4, <1>5 DEF WInv

(* Once the goroutine may receive events, a write leaves one.              *)
LEMMA WriteKeeps ==
    ASSUME IInv, WInv, Operator, Changes \subseteq {"write"}
    PROVE  WInv'
<1>1. PICK f \in File : \E v \in Version : WriteInPlace(f, v)
  BY DEF Operator, Remove, Replace, Create
<1>2. Reports(f, "write") /\ UNCHANGED <<present, watched, boot, procVars, served, raced>>
  BY <1>1 DEF Operator, WriteInPlace
<1>3. watched \in [File -> BOOLEAN] /\ events \in [File -> Seq({"write"})]
  BY DEF IInv, TypeOK, WInv, WatchedSoFar
<1>4. events' \in [File -> Seq({"write"})]
  BY <1>2, <1>3, WatchTypes
<1>5. WatchedSoFar'
  BY <1>2, <1>4 DEF WInv, WatchedSoFar, procVars
<1>6. boot \in {"load", "up"} => ~ NoEvent'
  BY <1>2, <1>3, WriteIsReported DEF WInv, WatchedSoFar, NoEvent
<1>. QED
  BY <1>2, <1>5, <1>6 DEF WInv, SeesDisk

(* "the cert/key pair can be updated on disk" without a restart (server.go):*)
(* if that is done by writing the files in place, at whatever time, a pair *)
(* on disk is what is served when nothing is left to do, unless the first  *)
(* load and the last reload overlapped.  Neither a write between the two   *)
(* reads of a load nor one whose event is merged with an earlier one goes  *)
(* unnoticed.                                                              *)
THEOREM WrittenPairIsUpToDate ==
    ASSUME Changes \subseteq {"write"}
    PROVE  Spec => [](raced \/ UpToDate)
<1>1. Init => WInv
  BY DEF Init, WInv, WatchedSoFar, SeesDisk, Process, File
<1>2. IInv /\ WInv /\ [Next]_vars => WInv'
  <2>. SUFFICES ASSUME IInv, WInv, [Next]_vars PROVE WInv'
    OBVIOUS
  <2>1. CASE Start
    BY <2>1, WatchFileKeeps, LoadSees DEF Start, Process
  <2>2. CASE WatchLoop
    <3>1. ~ StopWatching /\ ~ RearmWatch
      BY DEF StopWatching, RearmWatch, WInv, WatchedSoFar
    <3>. QED
      BY <2>2, <3>1, ReceiveKeeps, LoadSees DEF WatchLoop, Process
  <2>3. CASE Close
    <3>1. events' \in [File -> Seq({"write"})]
      BY <2>3 DEF Close
    <3>. QED
      BY <2>3, <3>1 DEF Close, WInv, WatchedSoFar, SeesDisk, diskVars, procVars
  <2>4. CASE Operator
    BY <2>4, WriteKeeps
  <2>5. CASE UNCHANGED vars
    BY <2>5 DEF vars, diskVars, fsVars, procVars, WInv, WatchedSoFar, SeesDisk, NoEvent, Pair
  <2>. QED
    BY <2>1, <2>2, <2>3, <2>4, <2>5 DEF Next
<1>3. WInv => raced \/ UpToDate
  BY DEF WInv, SeesDisk, NoEvent, UpToDate, AtRest, Process, File
<1>. QED
  BY <1>1, <1>2, <1>3, ReloaderInvariant, PTL DEF Spec
============================================================================
