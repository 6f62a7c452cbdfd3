------------------------- MODULE PolicyCacheProofs -------------------------
(***************************************************************************)
(* Theorems about PolicyCache, for every set of roles, contents and        *)
(* callers and an operator who edits the files at any time: what is served *)
(* and answered is fresh but for changes that are pending or slipped past, *)
(* and the cache refines PolicyRegister.                                   *)
(***************************************************************************)
EXTENDS PolicyCache, TLAPS

----------------------------------------------------------------------------
(* The queues of fsnotify                                                  *)

(* A report makes the queue non-empty.                                     *)
LEMMA ReportedQueue ==
    ASSUME NEW q \in Seq(EventKind), NEW kind \in EventKind, NEW r \in Reported(q, kind)
    PROVE  r \in Seq(EventKind) /\ r # <<>>
BY DEF Reported

(* What is left of a dropped queue is a queue.                             *)
LEMMA DroppedQueue ==
    ASSUME NEW q \in Seq(EventKind), NEW r \in Dropped(q)
    PROVE  r \in Seq(EventKind)
<1>1. CASE r = <<>>
  BY <1>1
<1>2. CASE r # <<>>
  <2>1. PICK i \in DOMAIN q \cap {1} : r = <<q[i]>>
    BY <1>2 DEF Dropped
  <2>2. q[i] \in EventKind
    BY <2>1
  <2>. QED
    BY <2>1, <2>2
<1>. QED
  BY <1>1, <1>2

(* watcher.Add keeps the queues well formed, watches a file that exists,   *)
(* and leaves an already watched file and its queue alone.                 *)
LEMMA AddEffect ==
    ASSUME TypeOK, NEW a \in ARN, Add(a)
    PROVE  /\ watched' \in [ARN -> BOOLEAN]
           /\ events' \in [ARN -> Seq(EventKind)]
           /\ file[a] # None => watched'[a]
           /\ \A b \in ARN : watched[b] => watched'[b]
           /\ \A b \in ARN : b # a \/ watched[a] \/ file[a] = None
                               => events'[b] = events[b]
<1>1. CASE file[a] = None
  BY <1>1 DEF Add, TypeOK, fsVars, opVars
<1>2. CASE file[a] # None
  <2>1. watched' = [watched EXCEPT ![a] = TRUE]
    BY <1>2 DEF Add
  <2>2. PICK q \in AfterAdd(watched[a], events[a]) : events' = [events EXCEPT ![a] = q]
    BY <1>2 DEF Add
  <2>3. q \in Seq(EventKind) /\ (watched[a] => q = events[a])
    BY DroppedQueue DEF AfterAdd, TypeOK
  <2>. QED
    BY <2>1, <2>2, <2>3, <1>2 DEF TypeOK
<1>. QED
  BY <1>1, <1>2

(* A change of a file that is watched leaves an event behind; another one  *)
(* leaves the queue as it is.                                              *)
LEMMA ChangeEffect ==
    ASSUME TypeOK, NEW a \in ARN, NEW kind \in EventKind,
           NEW q \in AfterChange(watched[a], events[a], kind)
    PROVE  /\ q \in Seq(EventKind)
           /\ watched[a] \/ events[a] # <<>> => q # <<>>
           /\ ~ watched[a] => q = events[a]
<1>1. events[a] \in Seq(EventKind) /\ watched[a] \in BOOLEAN
  BY DEF TypeOK
<1>. QED
  BY <1>1, ReportedQueue DEF AfterChange

----------------------------------------------------------------------------
(* Type correctness                                                        *)

(* At start-up nothing is cached, watched or running.                      *)
LEMMA InitType == Init => TypeOK
BY ContentsAssumption DEF Init, TypeOK, EventKind

(* A lookup (getPolicyTemplateFromCache) answers with a template that      *)
(* parsed.                                                                 *)
LEMMA LookupType ==
    ASSUME TypeOK, NEW p \in Process, NEW a \in ARN, Lookup(p, a),
           boot' \in {"warming", "up", "failed"}, todo' \in SUBSET ARN
    PROVE  TypeOK'
BY ZenonT(60) DEF TypeOK, Lookup, Return, LoadStep, RearmStep, fsVars, opVars

(* A step of getPolicyTemplate after a miss: what is stored is a content   *)
(* that was read and that parses.                                          *)
LEMMA LoadType ==
    ASSUME TypeOK, NEW p \in Process, Load(p)
    PROVE  TypeOK'
<1>1. CASE StartWatching(p)
  <2>1. arn[p] \in ARN
    BY <1>1 DEF StartWatching, TypeOK
  <2>. QED
    BY <1>1, <2>1, AddEffect DEF StartWatching, TypeOK, LoadStep, bootVars, opVars
<1>2. CASE ReadFile(p)
  BY <1>2, ZenonT(60) DEF ReadFile, Return, TypeOK, LoadStep, fsVars, bootVars, opVars
<1>3. CASE StoreTemplate(p)
  <2>1. arn[p] \in ARN /\ got[p] \in Contents
    BY <1>3 DEF StoreTemplate, TypeOK
  <2>2. templates' \in [ARN -> (Contents \ Unparsable) \cup {None}]
    BY <1>3, <2>1 DEF StoreTemplate, TypeOK
  <2>3. PICK x \in Contents \cup {None} : Return(p, x)
    BY <1>3, <2>1 DEF StoreTemplate
  <2>. QED
    BY <1>3, <2>2, <2>3 DEF StoreTemplate, Return, TypeOK, LoadStep, fsVars, bootVars, opVars
<1>. QED
  BY <1>1, <1>2, <1>3 DEF Load

(* The steps of PreWarm keep the types.                                    *)
LEMMA PreWarmType ==
    ASSUME TypeOK, PreWarm
    PROVE  TypeOK'
<1>1. CASE Load(Boot)
  BY <1>1, LoadType DEF Process
<1>2. CASE PreWarmEnd
  BY <1>2 DEF PreWarmEnd, TypeOK, fsVars, opVars, procVars
<1>3. ASSUME NEW a \in ARN, PreWarmNext(a)
      PROVE  TypeOK'
  BY <1>3, LookupType DEF PreWarmNext, TypeOK, Process
<1>. QED
  BY <1>1, <1>2, <1>3 DEF PreWarm

(* A callback of the watcher starts for the role whose event it received.  *)
LEMMA ReceiveType ==
    ASSUME TypeOK, NEW a \in ARN, NEW kind \in EventKind,
           NEW next \in {"lookup", "unwatch"}, Receive(a, kind, next)
    PROVE  TypeOK'
<1>1. Tail(events[a]) \in Seq(EventKind)
  BY DEF Receive, TypeOK
<1>2. raced' \in [ARN -> SUBSET Race]
  BY DEF Receive, RacedAfterEvent, TypeOK
<1>. QED
  BY <1>1, <1>2, ProcessAssumption DEF Receive, TypeOK, LoadStep, RearmStep, bootVars, opVars,
     Process

(* The steps of the watching goroutine keep the types.                     *)
LEMMA WatchFilesType ==
    ASSUME TypeOK, WatchFiles
    PROVE  TypeOK'
<1>0. Watcher \in Process
  BY DEF Process
<1>1. CASE Load(Watcher)
  BY <1>0, <1>1, LoadType
<1>2. CASE Reload
  BY <1>0, <1>2, LookupType DEF Reload, TypeOK, bootVars, opVars
<1>3. CASE StopWatching
  <2>1. arn[Watcher] \in ARN
    BY <1>0, <1>3 DEF StopWatching, TypeOK
  <2>2. PICK q \in Dropped(events[arn[Watcher]]) :
              events' = [events EXCEPT ![arn[Watcher]] = q]
    BY <1>3 DEF StopWatching
  <2>3. q \in Seq(EventKind)
    BY <2>1, DroppedQueue DEF TypeOK
  <2>. QED
    BY <1>0, <1>3, <2>1, <2>2, <2>3 DEF StopWatching, TypeOK, RearmStep, bootVars, opVars
<1>4. CASE RestartWatching
  <2>1. arn[Watcher] \in ARN
    BY <1>0, <1>4 DEF RestartWatching, TypeOK
  <2>. QED
    BY <1>0, <1>4, <2>1, AddEffect DEF RestartWatching, TypeOK, bootVars, opVars
<1>5. ASSUME NEW a \in ARN, FileUpdated(a) \/ FileDeleted(a)
      PROVE  TypeOK'
  BY <1>5, ReceiveType DEF FileUpdated, FileDeleted, EventKind
<1>. QED
  BY <1>1, <1>2, <1>3, <1>4, <1>5 DEF WatchFiles

(* A change can slip past a load and past restartWatching only.            *)
LEMMA RacesOfAChange ==
    ASSUME TypeOK, NEW a \in ARN, NEW c, NEW inPlace \in BOOLEAN, Change(a, c, inPlace)
    PROVE  /\ raced' \in [ARN -> SUBSET Race]
           /\ file' = [file EXCEPT ![a] = c] /\ changes' = changes + 1
           /\ UNCHANGED <<templates, procVars, bootVars>>
<1>1. Overtaken(a, inPlace) \subseteq Race
  BY DEF Overtaken, Race
<1>. QED
  BY <1>1 DEF Change, TypeOK

(* A change of a policy file keeps the types.                              *)
LEMMA OperatorType ==
    ASSUME TypeOK, Operator
    PROVE  TypeOK'
<1>1. ASSUME NEW a \in ARN, NEW c \in Contents, WriteInPlace(a, c)
      PROVE  TypeOK'
  <2>1. PICK q \in AfterChange(watched[a], events[a], "write") :
              events' = [events EXCEPT ![a] = q]
    BY <1>1 DEF WriteInPlace
  <2>2. q \in Seq(EventKind)
    BY ChangeEffect DEF EventKind
  <2>3. /\ raced' \in [ARN -> SUBSET Race]
        /\ file' = [file EXCEPT ![a] = c] /\ changes' = changes + 1
        /\ UNCHANGED <<templates, procVars, bootVars>>
    BY <1>1, RacesOfAChange DEF WriteInPlace
  <2>. QED
    BY <1>1, <2>1, <2>2, <2>3 DEF WriteInPlace, TypeOK, procVars, bootVars
<1>2. ASSUME NEW a \in ARN, NEW c \in Contents \cup {None}, Unlink(a, c)
      PROVE  TypeOK'
  <2>1. PICK q \in AfterChange(watched[a], events[a], "remove") :
              events' = [events EXCEPT ![a] = q]
    BY <1>2 DEF Unlink
  <2>2. q \in Seq(EventKind)
    BY ChangeEffect DEF EventKind
  <2>3. /\ raced' \in [ARN -> SUBSET Race]
        /\ file' = [file EXCEPT ![a] = c] /\ changes' = changes + 1
        /\ UNCHANGED <<templates, procVars, bootVars>>
    BY <1>2, RacesOfAChange DEF Unlink
  <2>. QED
    BY <1>2, <2>1, <2>2, <2>3 DEF Unlink, TypeOK, procVars, bootVars
<1>3. ASSUME NEW a \in ARN, NEW c \in Contents, Create(a, c)
      PROVE  TypeOK'
  <2>1. /\ raced' \in [ARN -> SUBSET Race]
        /\ file' = [file EXCEPT ![a] = c] /\ changes' = changes + 1
        /\ UNCHANGED <<templates, procVars, bootVars>>
    BY <1>3, RacesOfAChange DEF Create
  <2>. QED
    BY <1>3, <2>1 DEF Create, TypeOK, fsVars, procVars, bootVars
<1>. QED
  BY <1>1, <1>2, <1>3 DEF Operator

(* Every step keeps the types.                                             *)
LEMMA NextType == TypeOK /\ [Next]_vars => TypeOK'
<1>. SUFFICES ASSUME TypeOK, [Next]_vars
              PROVE  TypeOK'
  OBVIOUS
<1>1. ASSUME NEW c \in Callers, Load(c)
      PROVE  TypeOK'
  BY <1>1, LoadType DEF Process
<1>2. ASSUME NEW c \in Callers, NEW a \in ARN, GetPolicy(c, a)
      PROVE  TypeOK'
  BY <1>2, LookupType DEF GetPolicy, TypeOK, bootVars, opVars, Process
<1>3. CASE UNCHANGED vars
  BY <1>3 DEF vars, TypeOK
<1>. QED
  BY <1>1, <1>2, <1>3, PreWarmType, WatchFilesType, OperatorType DEF Next

(* Type correctness: in particular only templates that parsed are ever     *)
(* cached, and a goroutine that stores a template has read a file.         *)
THEOREM TypeCorrect == Spec => []TypeOK
BY InitType, NextType, PTL DEF Spec

----------------------------------------------------------------------------
(* Freshness, but for roles with a change that slipped past (raced)        *)

Fresh ==
    /\ StaleOnlyIfPendingOrRaced
    /\ RearmingIsFresh
    /\ CachedIsWatched
    /\ LoadingIsWatched
    /\ ReadIsCurrent

(* The empty cache is fresh.                                               *)
LEMMA InitFresh == Init => Fresh
BY DEF Init, Fresh, StaleOnlyIfPendingOrRaced, RearmingIsFresh, CachedIsWatched,
       LoadingIsWatched, ReadIsCurrent, Stale, Rearming, LoadStep, RearmStep, Process

(* A step of goroutine p that neither enters nor leaves restartWatching.   *)
LEMMA RearmingUnchanged ==
    ASSUME NEW p \in Process, pc[p] \notin RearmStep, pc'[p] \notin RearmStep,
           \A q \in Process : q # p => pc'[q] = pc[q] /\ arn'[q] = arn[q]
    PROVE  \A a \in ARN : Rearming(a)' <=> Rearming(a)
<1>1. Watcher \in Process
  BY DEF Process
<1>. QED
  BY <1>1 DEF Rearming

(* A lookup keeps the cache fresh: a load starts only where nothing is     *)
(* cached.                                                                 *)
LEMMA LookupFresh ==
    ASSUME TypeOK, Fresh, NEW p \in Process, NEW a \in ARN, Lookup(p, a),
           pc[p] \in {"idle", "lookup"}
    PROVE  Fresh'
<1>0. /\ UNCHANGED <<file, watched, events, templates, raced>>
      /\ arn'[p] = a
      /\ pc'[p] = "idle" \/ (pc'[p] = "miss" /\ templates[a] = None)
      /\ \A q \in Process : q # p => /\ pc'[q] = pc[q] /\ arn'[q] = arn[q]
                                     /\ got'[q] = got[q]
  BY DEF Lookup, Return, fsVars, opVars, TypeOK
<1>a. \A b \in ARN : Rearming(b)' <=> Rearming(b)
  BY <1>0, RearmingUnchanged DEF RearmStep
<1>2. StaleOnlyIfPendingOrRaced' /\ RearmingIsFresh' /\ CachedIsWatched'
  BY <1>0, <1>a DEF Fresh, StaleOnlyIfPendingOrRaced, RearmingIsFresh, CachedIsWatched, Stale,
     Marked
<1>3. LoadingIsWatched'
  BY <1>0, <1>a, SMTT(30) DEF Fresh, LoadingIsWatched, LoadStep, TypeOK
<1>4. ReadIsCurrent'
  BY <1>0, SMTT(30) DEF Fresh, ReadIsCurrent, TypeOK
<1>. QED
  BY <1>2, <1>3, <1>4 DEF Fresh

(* watcher.Add keeps the cache fresh: it can drop the events of a          *)
(* predecessor of the file only when no stale template depends on them.    *)
LEMMA StartWatchingFresh ==
    ASSUME TypeOK, Fresh, NEW p \in Process, StartWatching(p)
    PROVE  Fresh'
<1>. DEFINE a == arn[p]
<1>0. /\ a \in ARN /\ Add(a)
      /\ pc' = [pc EXCEPT ![p] = "added"]
      /\ UNCHANGED <<file, templates, arn, got, raced>>
      /\ pc[p] = "miss"
  BY DEF StartWatching, TypeOK, opVars
<1>a. \A b \in ARN : Rearming(b)' <=> Rearming(b)
  BY <1>0, RearmingUnchanged DEF RearmStep, TypeOK
<1>c. p = Watcher => ~ Rearming(a)
  BY <1>0 DEF Rearming, RearmStep
<1>b. events[a] # <<>> /\ events'[a] = <<>> => ~ Stale(a) \/ raced[a] # {}
  <2>1. SUFFICES ASSUME raced[a] = {}, ~ watched[a], file[a] # None PROVE ~ Stale(a)
    BY <1>0, AddEffect
  <2>2. templates[a] # None => Rearming(a)
    BY <1>0, <2>1 DEF Fresh, LoadingIsWatched, LoadStep
  <2>. QED
    BY <1>0, <2>1, <2>2 DEF Fresh, RearmingIsFresh, Stale
<1>1. StaleOnlyIfPendingOrRaced'
  BY <1>0, <1>b, AddEffect DEF Fresh, StaleOnlyIfPendingOrRaced, Stale, Marked
<1>2. RearmingIsFresh'
  BY <1>0, <1>a DEF Fresh, RearmingIsFresh, Stale
<1>3. CachedIsWatched'
  BY <1>0, <1>a, <1>1, <1>b, AddEffect DEF Fresh, CachedIsWatched, LoadingIsWatched, LoadStep,
     Marked
<1>4. LoadingIsWatched'
  BY <1>0, <1>a, AddEffect DEF Fresh, LoadingIsWatched, LoadStep, TypeOK
<1>5. ReadIsCurrent'
  <2>1. ASSUME NEW q \in Process, pc'[q] = "read", raced'[arn'[q]] = {}
        PROVE  /\ file'[arn'[q]] # None
               /\ got'[q] = file'[arn'[q]] \/ (q = Watcher /\ events'[arn'[q]] # <<>>)
    <3>1. /\ pc[q] = "read" /\ arn[q] \in ARN /\ raced[arn[q]] = {} /\ file[arn[q]] # None
          /\ got[q] = file[arn[q]] \/ (q = Watcher /\ events[arn[q]] # <<>>)
      BY <1>0, <2>1 DEF Fresh, ReadIsCurrent, TypeOK
    <3>2. q = Watcher => watched[arn[q]]
      BY <3>1 DEF Fresh, LoadingIsWatched, LoadStep, Rearming, RearmStep
    <3>. QED
      BY <1>0, <3>1, <3>2, AddEffect
  <2>. QED
    BY <2>1 DEF ReadIsCurrent
<1>. QED
  BY <1>1, <1>2, <1>3, <1>4, <1>5 DEF Fresh

(* Reading the file keeps the cache fresh: what was read is the present    *)
(* content.                                                                *)
LEMMA ReadFileFresh ==
    ASSUME TypeOK, Fresh, NEW p \in Process, ReadFile(p)
    PROVE  Fresh'
<1>0. /\ UNCHANGED <<file, watched, events, templates, arn, raced>>
      /\ arn[p] \in ARN /\ pc[p] = "added"
  BY DEF ReadFile, fsVars, opVars, TypeOK
<1>1. PICK x \in {"idle", "read"}, c \in Contents \cup {None} :
            /\ pc' = [pc EXCEPT ![p] = x]
            /\ got' = [got EXCEPT ![p] = c]
            /\ x = "read" => c = file[arn[p]] /\ c # None
  BY <1>0 DEF ReadFile, Return, TypeOK
<1>a. \A b \in ARN : Rearming(b)' <=> Rearming(b)
  BY <1>0, <1>1, RearmingUnchanged DEF RearmStep, TypeOK
<1>2. StaleOnlyIfPendingOrRaced' /\ RearmingIsFresh' /\ CachedIsWatched'
  BY <1>0, <1>a DEF Fresh, StaleOnlyIfPendingOrRaced, RearmingIsFresh, CachedIsWatched, Stale,
     Marked
<1>3. LoadingIsWatched'
  BY <1>0, <1>1, <1>a DEF Fresh, LoadingIsWatched, LoadStep, TypeOK
<1>4. ReadIsCurrent'
  BY <1>0, <1>1 DEF Fresh, ReadIsCurrent, TypeOK
<1>. QED
  BY <1>2, <1>3, <1>4 DEF Fresh

(* Storing a template keeps the cache fresh: what was read is still the    *)
(* content, or an event is pending.                                        *)
LEMMA StoreTemplateFresh ==
    ASSUME TypeOK, Fresh, NEW p \in Process, StoreTemplate(p)
    PROVE  Fresh'
<1>. DEFINE a == arn[p]
<1>0. /\ a \in ARN
      /\ templates' = templates \/ templates' = [templates EXCEPT ![a] = got[p]]
      /\ pc' = [pc EXCEPT ![p] = "idle"]
      /\ UNCHANGED <<file, watched, events, arn, raced>>
      /\ \A q \in Process : q # p => got'[q] = got[q]
      /\ pc[p] = "read"
  BY DEF StoreTemplate, Return, fsVars, opVars, TypeOK
<1>a. \A b \in ARN : Rearming(b)' <=> Rearming(b)
  BY <1>0 DEF Rearming, RearmStep, TypeOK
<1>b. raced[a] = {} =>
      /\ file[a] # None
      /\ watched[a] \/ Rearming(a)
      /\ got[p] = file[a] \/ (p = Watcher /\ events[a] # <<>>)
  BY <1>0 DEF Fresh, ReadIsCurrent, LoadingIsWatched, LoadStep
<1>c. p = Watcher => ~ Rearming(a)
  BY <1>0 DEF Rearming, RearmStep
<1>1. StaleOnlyIfPendingOrRaced'
  BY <1>0, <1>b DEF Fresh, StaleOnlyIfPendingOrRaced, Stale, Marked, TypeOK
<1>2. RearmingIsFresh'
  BY <1>0, <1>a, <1>b, <1>c DEF Fresh, RearmingIsFresh, Stale, TypeOK
<1>3. CachedIsWatched'
  BY <1>0, <1>a, <1>b DEF Fresh, CachedIsWatched, Marked, TypeOK
<1>4. LoadingIsWatched'
  BY <1>0, <1>a, <1>b DEF Fresh, LoadingIsWatched, LoadStep, TypeOK
<1>5. ReadIsCurrent'
  BY <1>0 DEF Fresh, ReadIsCurrent, TypeOK
<1>. QED
  BY <1>1, <1>2, <1>3, <1>4, <1>5 DEF Fresh

(* The steps of getPolicyTemplate after a miss keep the cache fresh.       *)
LEMMA LoadFresh ==
    ASSUME TypeOK, Fresh, NEW p \in Process, Load(p)
    PROVE  Fresh'
BY StartWatchingFresh, ReadFileFresh, StoreTemplateFresh DEF Load

(* Receiving an event keeps the cache fresh: the entry goes with the       *)
(* event.                                                                  *)
LEMMA ReceiveFresh ==
    ASSUME TypeOK, Fresh, NEW a \in ARN, NEW kind \in EventKind,
           NEW next \in {"lookup", "unwatch"}, Receive(a, kind, next)
    PROVE  Fresh'
<1>0. Watcher \in Process
  BY DEF Process
<1>a. /\ \A b \in ARN : b # a => raced'[b] = raced[b]
      /\ \A p \in Process \ {Watcher} : arn[p] = a /\ pc[p] \in LoadStep => raced'[a] = raced[a]
  BY DEF Receive, RacedAfterEvent, TypeOK
<1>b. \A p \in Process : pc[p] \in LoadStep => p # Watcher /\ arn[p] \in ARN /\ raced'[arn[p]] = raced[arn[p]]
  BY <1>a DEF Receive, LoadStep, TypeOK
<1>1. StaleOnlyIfPendingOrRaced'
  BY <1>a DEF Receive, Fresh, StaleOnlyIfPendingOrRaced, Stale, Marked, TypeOK
<1>2. RearmingIsFresh'
  BY <1>0, <1>a DEF Receive, Fresh, RearmingIsFresh, Stale, Rearming, TypeOK
<1>3. CachedIsWatched'
  BY <1>0, <1>a DEF Receive, Fresh, CachedIsWatched, Marked, Rearming, RearmStep, TypeOK
<1>4. LoadingIsWatched'
  BY <1>0, <1>b DEF Receive, Fresh, LoadingIsWatched, Rearming, RearmStep, LoadStep, TypeOK
<1>5. ReadIsCurrent'
  BY <1>0, <1>b DEF Receive, Fresh, ReadIsCurrent, LoadStep, TypeOK
<1>. QED
  BY <1>1, <1>2, <1>3, <1>4, <1>5 DEF Fresh

(* watcher.Remove keeps the cache fresh: the template of a role that is    *)
(* rearmed is not stale.                                                   *)
LEMMA StopWatchingFresh ==
    ASSUME TypeOK, Fresh, StopWatching
    PROVE  Fresh'
<1>. DEFINE a == arn[Watcher]
<1>0. Watcher \in Process /\ a \in ARN /\ Rearming(a)
  BY DEF Process, StopWatching, TypeOK, Rearming, RearmStep
<1>1. PICK q \in Dropped(events[a]) : events' = [events EXCEPT ![a] = q]
  BY DEF StopWatching
<1>a. \A b \in ARN : Rearming(b)' <=> Rearming(b)
  BY <1>0 DEF StopWatching, Rearming, RearmStep, TypeOK
<1>2. StaleOnlyIfPendingOrRaced' /\ RearmingIsFresh' /\ CachedIsWatched'
  BY <1>0, <1>1, <1>a DEF StopWatching, Fresh, StaleOnlyIfPendingOrRaced, RearmingIsFresh,
                          CachedIsWatched, Stale, Marked, TypeOK, opVars
<1>3. LoadingIsWatched'
  BY <1>0, <1>1, <1>a DEF StopWatching, Fresh, LoadingIsWatched, LoadStep, TypeOK, opVars
<1>4. ReadIsCurrent'
  BY <1>0, <1>1 DEF StopWatching, Fresh, ReadIsCurrent, TypeOK, opVars
<1>. QED
  BY <1>2, <1>3, <1>4 DEF Fresh

(* watcher.Add in restartWatching keeps the cache fresh.                   *)
LEMMA RestartWatchingFresh ==
    ASSUME TypeOK, Fresh, RestartWatching
    PROVE  Fresh'
<1>. DEFINE a == arn[Watcher]
<1>0. /\ Watcher \in Process /\ a \in ARN /\ Rearming(a) /\ Add(a)
      /\ pc' = [pc EXCEPT ![Watcher] = "idle"]
      /\ UNCHANGED <<file, templates, arn, got, raced>>
  BY DEF Process, RestartWatching, TypeOK, Rearming, RearmStep, opVars
<1>a. /\ \A b \in ARN : ~ Rearming(b)'
      /\ \A b \in ARN : b # a => ~ Rearming(b)
  BY <1>0 DEF Rearming, RearmStep, TypeOK
<1>b. file[a] # None => watched'[a]
  BY <1>0, AddEffect
<1>c. file[a] = None /\ raced[a] = {} => templates[a] = None
  BY <1>0 DEF Fresh, RearmingIsFresh, Stale
<1>1. StaleOnlyIfPendingOrRaced' /\ RearmingIsFresh'
  BY <1>0, <1>a, AddEffect DEF Fresh, StaleOnlyIfPendingOrRaced, RearmingIsFresh, Stale, Marked
<1>2. CachedIsWatched'
  BY <1>0, <1>a, <1>b, <1>c, AddEffect, ZenonT(60) DEF Fresh, CachedIsWatched, Marked
<1>3. LoadingIsWatched'
  BY <1>0, <1>a, <1>b, <1>c, AddEffect DEF Fresh, LoadingIsWatched, LoadStep, TypeOK
<1>4. ReadIsCurrent'
  BY <1>0, AddEffect DEF RestartWatching, Fresh, ReadIsCurrent, TypeOK
<1>. QED
  BY <1>1, <1>2, <1>3, <1>4 DEF Fresh

(* A change of a file that no load and no rearming is open to, and which   *)
(* leaves no mark, overlaps nothing; the marks of other roles stay.        *)
LEMMA MarksOfAChange ==
    ASSUME TypeOK, NEW a \in ARN, NEW c, NEW inPlace \in BOOLEAN, Change(a, c, inPlace)
    PROVE  /\ \A b \in ARN : b # a => raced'[b] = raced[b]
           /\ raced'[a] = {} => raced[a] = {}
           /\ raced'[a] = {} => \A p \in Process : arn[p] = a => pc[p] \notin OpenTo(p, inPlace)
<1>1. raced'[a] = raced[a] \cup Overtaken(a, inPlace) /\ \A b \in ARN : b # a => raced'[b] = raced[b]
  BY DEF Change, TypeOK
<1>2. ASSUME NEW p \in Process, arn[p] = a, pc[p] \in OpenTo(p, inPlace)
      PROVE  Overtaken(a, inPlace) # {}
  <2>1. pc[p] \in LoadStep \/ pc[p] \in RearmStep
    BY <1>2 DEF OpenTo, LoadStep
  <2>. QED
    BY <1>2, <2>1, Zenon DEF Overtaken
<1>. QED
  BY <1>1, <1>2

(* Such a change is made while nobody rearms the file, and a load of it    *)
(* either has not read it or is the watcher's own.                         *)
LEMMA UnmarkedWriteInPlace ==
    ASSUME TypeOK, NEW a \in ARN, NEW c, Change(a, c, TRUE), raced'[a] = {}
    PROVE  /\ ~ Rearming(a)
           /\ \A p \in Process : arn[p] = a /\ pc[p] = "read" => p = Watcher
<1>1. \A p \in Process : arn[p] = a => pc[p] \notin OpenTo(p, TRUE)
  BY MarksOfAChange
<1>. QED
  BY <1>1 DEF OpenTo, Rearming, RearmStep, Process

(* A write in place keeps the cache fresh: a cached template is watched,   *)
(* so the write leaves an event.                                           *)
LEMMA WriteInPlaceFresh ==
    ASSUME TypeOK, Fresh, NEW a \in ARN, NEW c \in Contents, WriteInPlace(a, c)
    PROVE  Fresh'
<1>0. /\ file[a] # None /\ file' = [file EXCEPT ![a] = c] /\ c # None
      /\ UNCHANGED <<templates, watched, pc, arn, got>>
      /\ Change(a, c, TRUE)
  BY ContentsAssumption DEF WriteInPlace, Change, procVars
<1>1. PICK q \in AfterChange(watched[a], events[a], "write") :
            events' = [events EXCEPT ![a] = q]
  BY DEF WriteInPlace
<1>2. watched[a] \/ events[a] # <<>> => q # <<>>
  BY ChangeEffect DEF EventKind
<1>m. /\ \A b \in ARN : raced'[b] = {} => raced[b] = {}
      /\ \A b \in ARN : b # a => raced'[b] = raced[b]
  BY <1>0, MarksOfAChange
<1>a. \A b \in ARN : Rearming(b)' <=> Rearming(b)
  BY <1>0 DEF Rearming
<1>b. raced'[a] = {} => ~ Rearming(a) /\ \A p \in Process : arn[p] = a /\ pc[p] = "read" => p = Watcher
  BY <1>0, UnmarkedWriteInPlace
<1>3. StaleOnlyIfPendingOrRaced'
  BY <1>0, <1>1, <1>2, <1>m, <1>b DEF Fresh, StaleOnlyIfPendingOrRaced, CachedIsWatched, Stale,
     Marked, TypeOK
<1>4. RearmingIsFresh'
  BY <1>0, <1>m, <1>a, <1>b DEF Fresh, RearmingIsFresh, Stale, TypeOK
<1>5. CachedIsWatched'
  BY <1>0, <1>1, <1>2, <1>m, <1>a DEF Fresh, CachedIsWatched, Marked, TypeOK
<1>6. LoadingIsWatched'
  <2>1. \A p \in Process : pc[p] \in LoadStep =>
            arn[p] \in ARN /\ (file'[arn[p]] # None => file[arn[p]] # None)
    BY <1>0 DEF TypeOK, LoadStep
  <2>. QED
    BY <1>0, <1>m, <1>a, <2>1 DEF Fresh, LoadingIsWatched, LoadStep
<1>7. ReadIsCurrent'
  <2>1. ASSUME NEW p \in Process, pc'[p] = "read", raced'[arn'[p]] = {}
        PROVE  /\ file'[arn'[p]] # None
               /\ got'[p] = file'[arn'[p]] \/ (p = Watcher /\ events'[arn'[p]] # <<>>)
    <3>1. /\ pc[p] = "read" /\ arn[p] \in ARN /\ raced[arn[p]] = {} /\ file[arn[p]] # None
          /\ got[p] = file[arn[p]] \/ (p = Watcher /\ events[arn[p]] # <<>>)
      BY <1>0, <1>m, <2>1 DEF Fresh, ReadIsCurrent, TypeOK
    <3>2. CASE arn[p] = a
      <4>1. p = Watcher /\ ~ Rearming(a)
        BY <1>0, <1>b, <2>1, <3>1, <3>2
      <4>2. watched[a]
        BY <3>1, <3>2, <4>1 DEF Fresh, LoadingIsWatched, LoadStep
      <4>. QED
        BY <1>0, <1>1, <1>2, <3>2, <4>1, <4>2 DEF TypeOK
    <3>3. CASE arn[p] # a
      BY <1>0, <1>1, <3>1, <3>3 DEF TypeOK
    <3>. QED
      BY <3>2, <3>3
  <2>. QED
    BY <2>1 DEF ReadIsCurrent
<1>. QED
  BY <1>3, <1>4, <1>5, <1>6, <1>7 DEF Fresh

(* The other changes leave no mark only while nobody loads or rearms the   *)
(* file.                                                                   *)
LEMMA UnmarkedChange ==
    ASSUME TypeOK, NEW a \in ARN, NEW c, Change(a, c, FALSE)
    PROVE  /\ raced'[a] = {} => /\ ~ Rearming(a)
                                /\ \A p \in Process : pc[p] \in LoadStep => arn[p] \in ARN \ {a}
           /\ \A b \in ARN : Rearming(b)' <=> Rearming(b)
           /\ file' = [file EXCEPT ![a] = c]
           /\ UNCHANGED <<templates, pc, arn, got>>
<1>0. \A p \in Process : pc[p] \in LoadStep => arn[p] \in ARN
  BY DEF TypeOK, LoadStep
<1>1. /\ file' = [file EXCEPT ![a] = c]
      /\ UNCHANGED <<templates, pc, arn, got>>
  BY DEF Change, procVars
<1>2. raced'[a] = {} => \A p \in Process : arn[p] = a => pc[p] \notin LoadStep \cup RearmStep
  BY MarksOfAChange DEF OpenTo
<1>. QED
  BY <1>0, <1>1, <1>2 DEF Rearming, Process

(* The other changes leave the loads and the rearming of other roles as    *)
(* they are.                                                               *)
LEMMA ChangeKeepsLoads ==
    ASSUME TypeOK, Fresh, NEW a \in ARN, NEW c, Change(a, c, FALSE),
           \A b \in ARN : b # a => watched'[b] = watched[b] /\ events'[b] = events[b]
    PROVE  RearmingIsFresh' /\ LoadingIsWatched' /\ ReadIsCurrent'
<1>0. /\ raced'[a] = {} => /\ ~ Rearming(a)
                           /\ \A p \in Process : pc[p] \in LoadStep => arn[p] # a
      /\ \A p \in Process : pc[p] \in LoadStep => arn[p] \in ARN
      /\ \A b \in ARN : Rearming(b)' <=> Rearming(b)
      /\ \A b \in ARN : b # a => file'[b] = file[b] /\ raced'[b] = raced[b]
      /\ UNCHANGED <<templates, pc, arn, got>>
  <2>1. file' = [file EXCEPT ![a] = c] /\ \A b \in ARN : b # a => raced'[b] = raced[b]
    BY UnmarkedChange, MarksOfAChange
  <2>2. \A p \in Process : pc[p] \in LoadStep => arn[p] \in ARN
    BY DEF TypeOK, LoadStep
  <2>3. \A b \in ARN : b # a => file'[b] = file[b]
    BY <2>1 DEF TypeOK
  <2>. QED
    BY <2>1, <2>2, <2>3, UnmarkedChange
<1>1. RearmingIsFresh'
  BY <1>0 DEF Fresh, RearmingIsFresh, Stale
<1>2. LoadingIsWatched'
  <2>1. ASSUME NEW p \in Process, pc[p] \in LoadStep, raced'[arn[p]] = {}
        PROVE  arn[p] \in ARN /\ arn[p] # a /\ raced[arn[p]] = {}
    BY <1>0, <2>1
  <2>. QED
    BY <1>0, <2>1 DEF Fresh, LoadingIsWatched
<1>3. ReadIsCurrent'
  <2>1. ASSUME NEW p \in Process, pc[p] = "read", raced'[arn[p]] = {}
        PROVE  arn[p] \in ARN /\ arn[p] # a /\ raced[arn[p]] = {}
    BY <1>0, <2>1 DEF LoadStep
  <2>. QED
    BY <1>0, <2>1 DEF Fresh, ReadIsCurrent
<1>. QED
  BY <1>1, <1>2, <1>3

(* Deleting or replacing a file keeps the cache fresh.                     *)
LEMMA UnlinkFresh ==
    ASSUME TypeOK, Fresh, NEW a \in ARN, NEW c \in Contents \cup {None}, Unlink(a, c)
    PROVE  Fresh'
<1>0. /\ Change(a, c, FALSE) /\ watched' = [watched EXCEPT ![a] = FALSE]
      /\ file' = [file EXCEPT ![a] = c] /\ UNCHANGED templates
  BY DEF Unlink, Change
<1>1. PICK q \in AfterChange(watched[a], events[a], "remove") :
            events' = [events EXCEPT ![a] = q]
  BY DEF Unlink
<1>2. watched[a] \/ events[a] # <<>> => q # <<>>
  BY ChangeEffect DEF EventKind
<1>3. /\ raced'[a] = {} => ~ Rearming(a)
      /\ \A b \in ARN : Rearming(b)' <=> Rearming(b)
  BY <1>0, UnmarkedChange
<1>m. /\ \A b \in ARN : raced'[b] = {} => raced[b] = {}
      /\ \A b \in ARN : b # a => raced'[b] = raced[b]
  BY <1>0, MarksOfAChange
<1>4. StaleOnlyIfPendingOrRaced'
  BY <1>0, <1>1, <1>2, <1>3, <1>m DEF Fresh, StaleOnlyIfPendingOrRaced, CachedIsWatched, Stale,
     Marked, TypeOK
<1>5. CachedIsWatched'
  BY <1>0, <1>1, <1>2, <1>3, <1>m DEF Fresh, CachedIsWatched, Marked, TypeOK
<1>6. \A b \in ARN : b # a => watched'[b] = watched[b] /\ events'[b] = events[b]
  BY <1>0, <1>1 DEF TypeOK
<1>. QED
  BY <1>0, <1>4, <1>5, <1>6, ChangeKeepsLoads DEF Fresh

(* Creating a file keeps the cache fresh: nothing was cached for it, or an *)
(* event is pending.                                                       *)
LEMMA CreateFresh ==
    ASSUME TypeOK, Fresh, NEW a \in ARN, NEW c \in Contents, Create(a, c)
    PROVE  Fresh'
<1>0. /\ Change(a, c, FALSE) /\ UNCHANGED <<watched, events, templates>>
      /\ file[a] = None /\ file' = [file EXCEPT ![a] = c]
  BY DEF Create, Change, fsVars
<1>1. \A b \in ARN : Rearming(b)' <=> Rearming(b)
  BY <1>0, UnmarkedChange
<1>m. \A b \in ARN : raced'[b] = {} => raced[b] = {}
  BY <1>0, MarksOfAChange
<1>2. StaleOnlyIfPendingOrRaced'
  BY <1>0, <1>m DEF Fresh, StaleOnlyIfPendingOrRaced, Stale, Marked, TypeOK
<1>3. CachedIsWatched'
  BY <1>0, <1>1, <1>m DEF Fresh, CachedIsWatched, Marked
<1>. QED
  BY <1>0, <1>2, <1>3, ChangeKeepsLoads DEF Fresh

(* Every step keeps the cache fresh.                                       *)
LEMMA NextFresh == TypeOK /\ Fresh /\ [Next]_vars => Fresh'
<1>. SUFFICES ASSUME TypeOK, Fresh, [Next]_vars
              PROVE  Fresh'
  OBVIOUS
<1>0. Watcher \in Process /\ Boot \in Process /\ Callers \subseteq Process
  BY DEF Process
<1>1. ASSUME NEW c \in Callers, NEW a \in ARN, GetPolicy(c, a)
      PROVE  Fresh'
  BY <1>0, <1>1, LookupFresh DEF GetPolicy
<1>2. CASE PreWarm
  <2>1. CASE PreWarmEnd
    BY <2>1 DEF PreWarmEnd, Fresh, StaleOnlyIfPendingOrRaced, RearmingIsFresh, CachedIsWatched,
       LoadingIsWatched, ReadIsCurrent, Marked, Stale, Rearming, fsVars, procVars, opVars
  <2>2. ASSUME NEW a \in ARN, PreWarmNext(a)
        PROVE  Fresh'
    BY <1>0, <2>2, LookupFresh DEF PreWarmNext
  <2>. QED
    BY <1>0, <1>2, <2>1, <2>2, LoadFresh DEF PreWarm
<1>3. CASE WatchFiles
  <2>1. CASE Reload
    <3>1. arn[Watcher] \in ARN
      BY <1>0, <2>1 DEF Reload, TypeOK
    <3>. QED
      BY <1>0, <2>1, <3>1, LookupFresh DEF Reload
  <2>2. ASSUME NEW a \in ARN, FileUpdated(a) \/ FileDeleted(a)
        PROVE  Fresh'
    BY <2>2, ReceiveFresh DEF FileUpdated, FileDeleted, EventKind
  <2>. QED
    BY <1>0, <1>3, <2>1, <2>2, LoadFresh, StopWatchingFresh, RestartWatchingFresh DEF WatchFiles
<1>4. CASE Operator
  BY <1>4, WriteInPlaceFresh, UnlinkFresh, CreateFresh DEF Operator
<1>5. CASE UNCHANGED vars
  BY <1>5 DEF vars, Fresh, StaleOnlyIfPendingOrRaced, RearmingIsFresh, CachedIsWatched, Marked,
              LoadingIsWatched, ReadIsCurrent, Stale, Rearming
<1>. QED
  BY <1>0, <1>1, <1>2, <1>3, <1>4, <1>5, LoadFresh DEF Next

(* The inductive invariant, whose initial and step conditions are above.   *)
THEOREM InductiveInvariant == Spec => []IInv
<1>1. Init => TypeOK /\ Fresh
  BY InitType, InitFresh
<1>2. TypeOK /\ Fresh /\ [Next]_vars => (TypeOK /\ Fresh)'
  BY NextType, NextFresh
<1>3. TypeOK /\ Fresh => IInv
  BY DEF Fresh, IInv
<1>. QED
  BY <1>1, <1>2, <1>3, PTL DEF Spec

(* Cache invalidation (fileUpdated, fileDeleted), whenever the files are   *)
(* changed: a template that differs from its file is cached only while an  *)
(* event of the file is pending, or after a change that came while the     *)
(* file was being loaded or watched again.                                 *)
THEOREM CacheFreshness == Spec => []StaleOnlyIfPendingOrRaced
<1>1. IInv => StaleOnlyIfPendingOrRaced
  BY DEF IInv
<1>. QED
  BY <1>1, InductiveInvariant, PTL

(* What a call is told is as fresh as the cache or, after a miss, as what  *)
(* was read.                                                               *)
LEMMA AnswersAreFresh ==
    ASSUME IInv, NEW p \in Callers \cup {Boot}, Ask(p), pc'[p] = "idle"
    PROVE  \/ got'[p] = None /\ file[arn'[p]] \in Unparsable \cup {None}
           \/ got'[p] # None /\ (got'[p] = file[arn'[p]] \/ events[arn'[p]] # <<>>)
           \/ raced[arn'[p]] # {}
<1>0. /\ p \in Process /\ p # Watcher
      /\ pc \in [Process -> {"idle", "lookup"} \cup LoadStep \cup RearmStep]
      /\ arn \in [Process -> ARN \cup {None}] /\ got \in [Process -> Contents \cup {None}]
  BY ProcessAssumption DEF IInv, TypeOK, Process
<1>1. CASE StartWatching(p)
  BY <1>0, <1>1 DEF StartWatching
<1>2. CASE ReadFile(p)
  BY <1>0, <1>2 DEF ReadFile, Return
<1>3. CASE StoreTemplate(p)
  <2>1. raced[arn[p]] = {} => file[arn[p]] # None /\ got[p] = file[arn[p]]
    BY <1>0, <1>3 DEF StoreTemplate, IInv, ReadIsCurrent
  <2>. QED
    BY <1>0, <1>3, <2>1 DEF StoreTemplate, Return
<1>4. ASSUME NEW a \in ARN, Lookup(p, a)
      PROVE  \/ /\ got'[p] # None
                /\ got'[p] = file[arn'[p]] \/ events[arn'[p]] # <<>>
             \/ raced[arn'[p]] # {}
  <2>1. arn'[p] = a /\ templates[a] # None /\ got'[p] = templates[a]
    BY <1>0, <1>4 DEF Lookup, Return
  <2>. QED
    BY <2>1 DEF IInv, StaleOnlyIfPendingOrRaced, Stale, Marked
<1>. QED
  BY <1>1, <1>2, <1>3, <1>4 DEF Ask, Load, GetPolicy, PreWarmNext

(* A caller of getPolicyTemplate is told an error only if there is no      *)
(* policy that parses, and a template that differs from its file only while*)
(* the event of the change is pending, unless a change of the file came    *)
(* while it was being loaded or watched again.                             *)
THEOREM CurrentAnswers == Spec => AnswerIsCurrent
<1>1. IInv => \A p \in Callers \cup {Boot} :
                 Ask(p) /\ pc'[p] = "idle"
                 => LET a == arn'[p] IN
                    \/ got'[p] = None /\ file[a] \in Unparsable \cup {None}
                    \/ got'[p] # None /\ (got'[p] = file[a] \/ events[a] # <<>>)
                    \/ raced[a] # {}
  BY AnswersAreFresh
<1>. QED
  BY <1>1, InductiveInvariant, PTL DEF Spec, AnswerIsCurrent

----------------------------------------------------------------------------
(* The refinement of PolicyRegister                                        *)

(* A step that touches one role changes the mark of that role only.        *)
LEMMA MarkOfOneRole ==
    ASSUME NEW a \in ARN,
           \A b \in ARN : b # a => events'[b] = events[b] /\ raced'[b] = raced[b]
    PROVE  \E m \in BOOLEAN :
              [b \in ARN |-> Marked(b)']
                = [[b \in ARN |-> Marked(b)] EXCEPT ![a] = m]
<1>. DEFINE m == Marked(a)'
            new == [b \in ARN |-> Marked(b)']
            old == [b \in ARN |-> Marked(b)]
<1>1. ASSUME NEW b \in ARN
      PROVE  new[b] = (IF b = a THEN m ELSE old[b])
  <2>1. CASE b = a
    BY <2>1
  <2>2. CASE b # a
    BY <2>2 DEF Marked
  <2>. QED
    BY <2>1, <2>2
<1>. HIDE DEF m
<1>2. new = [b \in ARN |-> IF b = a THEN m ELSE old[b]]
  BY <1>1, Zenon
<1>3. [old EXCEPT ![a] = m] = [b \in ARN |-> IF b = a THEN m ELSE old[b]]
  BY Zenon
<1>4. m \in BOOLEAN
  BY DEF m, Marked
<1>. QED
  BY <1>2, <1>3, <1>4, Zenon

(* A step that touches one role, and not both its file and its entry, is a *)
(* step of the register if the cache is fresh after it.                    *)
LEMMA OneRoleStep ==
    ASSUME TypeOK, TypeOK', StaleOnlyIfPendingOrRaced', NEW a \in ARN,
           \A b \in ARN : b # a => /\ events'[b] = events[b]
                                 /\ raced'[b] = raced[b]
                                 /\ file'[b] = file[b]
                                 /\ templates'[b] = templates[b],
           UNCHANGED file \/ UNCHANGED templates
    PROVE  Register!Next
<1>1. \E m \in BOOLEAN : [b \in ARN |-> Marked(b)']
                = [[b \in ARN |-> Marked(b)] EXCEPT ![a] = m]
  BY MarkOfOneRole
<1>2. templates'[a] \in {None, file'[a]} \/ [b \in ARN |-> Marked(b)'][a]
  BY DEF StaleOnlyIfPendingOrRaced, Stale
<1>3. CASE UNCHANGED templates
  <2>1. file' = [file EXCEPT ![a] = file'[a]] /\ file'[a] \in Contents \cup {None}
    BY DEF TypeOK
  <2>2. Register!Edit(a)
    BY <1>1, <1>2, <1>3, <2>1, Zenon DEF Register!Edit, Register!Current
  <2>. QED
    BY <2>2 DEF Register!Next
<1>4. CASE UNCHANGED file
  <2>1. /\ templates' = [templates EXCEPT ![a] = templates'[a]]
        /\ templates'[a] \in Contents \cup {None}
    BY DEF TypeOK
  <2>2. Register!Serve(a)
    BY <1>1, <1>2, <1>4, <2>1, Zenon DEF Register!Serve, Register!Current
  <2>. QED
    BY <2>2 DEF Register!Next
<1>. QED
  BY <1>3, <1>4

SameData == UNCHANGED <<file, templates, events, raced>>

OneRoleChanges(a) ==
    /\ \A b \in ARN : b # a => /\ events'[b] = events[b]
                             /\ raced'[b] = raced[b]
                             /\ file'[b] = file[b]
                             /\ templates'[b] = templates[b]
    /\ UNCHANGED file \/ UNCHANGED templates

(* A step of getPolicyTemplate after a miss touches the data of one role.  *)
LEMMA LoadTouches ==
    ASSUME TypeOK, NEW p \in Process, Load(p)
    PROVE  \E a \in ARN : OneRoleChanges(a)
<1>1. arn[p] \in ARN
  BY DEF Load, StartWatching, ReadFile, StoreTemplate, TypeOK
<1>2. CASE StartWatching(p)
  <2>1. Add(arn[p]) /\ UNCHANGED <<file, templates, raced>>
    BY <1>2 DEF StartWatching, opVars
  <2>. QED
    BY <1>1, <2>1, AddEffect DEF OneRoleChanges
<1>3. CASE ReadFile(p)
  BY <1>1, <1>3 DEF ReadFile, OneRoleChanges, fsVars, opVars
<1>4. CASE StoreTemplate(p)
  <2>1. UNCHANGED <<file, events, raced>>
    BY <1>4 DEF StoreTemplate, fsVars, opVars
  <2>2. templates' = templates \/ templates' = [templates EXCEPT ![arn[p]] = got[p]]
    BY <1>4 DEF StoreTemplate
  <2>. QED
    BY <1>1, <2>1, <2>2 DEF OneRoleChanges, TypeOK
<1>. QED
  BY <1>2, <1>3, <1>4 DEF Load

(* A step of the watching goroutine touches the data of at most one role.  *)
LEMMA WatchFilesTouches ==
    ASSUME TypeOK, WatchFiles
    PROVE  SameData \/ \E a \in ARN : OneRoleChanges(a)
<1>0. Watcher \in Process
  BY DEF Process
<1>1. CASE Load(Watcher)
  BY <1>0, <1>1, LoadTouches
<1>2. CASE Reload
  BY <1>2 DEF Reload, Lookup, SameData, fsVars, opVars
<1>3. CASE StopWatching
  <2>1. arn[Watcher] \in ARN
    BY <1>0, <1>3 DEF StopWatching, TypeOK
  <2>2. PICK q \in Dropped(events[arn[Watcher]]) :
              events' = [events EXCEPT ![arn[Watcher]] = q]
    BY <1>3 DEF StopWatching
  <2>3. UNCHANGED <<file, templates, raced>>
    BY <1>3 DEF StopWatching, opVars
  <2>. QED
    BY <2>1, <2>2, <2>3 DEF OneRoleChanges, TypeOK
<1>4. CASE RestartWatching
  <2>1. arn[Watcher] \in ARN /\ Add(arn[Watcher]) /\ UNCHANGED <<file, templates, raced>>
    BY <1>0, <1>4 DEF RestartWatching, TypeOK, opVars
  <2>. QED
    BY <2>1, AddEffect DEF OneRoleChanges
<1>5. ASSUME NEW a \in ARN, FileUpdated(a) \/ FileDeleted(a)
      PROVE  OneRoleChanges(a)
  BY <1>5 DEF FileUpdated, FileDeleted, Receive, RacedAfterEvent, OneRoleChanges, TypeOK
<1>. QED
  BY <1>1, <1>2, <1>3, <1>4, <1>5 DEF WatchFiles

(* A change of a file touches the data of one role.                        *)
LEMMA OperatorTouches ==
    ASSUME TypeOK, Operator
    PROVE  \E a \in ARN : OneRoleChanges(a)
<1>1. ASSUME NEW a \in ARN, NEW c, NEW inPlace, Change(a, c, inPlace),
             NEW q, events' = [events EXCEPT ![a] = q]
      PROVE  OneRoleChanges(a)
  BY <1>1 DEF Change, OneRoleChanges, TypeOK
<1>2. ASSUME NEW a \in ARN, NEW c \in Contents, WriteInPlace(a, c)
      PROVE  OneRoleChanges(a)
  BY <1>1, <1>2 DEF WriteInPlace
<1>3. ASSUME NEW a \in ARN, NEW c \in Contents \cup {None}, Unlink(a, c)
      PROVE  OneRoleChanges(a)
  BY <1>1, <1>3 DEF Unlink
<1>4. ASSUME NEW a \in ARN, NEW c \in Contents, Create(a, c)
      PROVE  OneRoleChanges(a)
  <2>1. events' = [events EXCEPT ![a] = events[a]]
    BY <1>4 DEF Create, fsVars, opVars, TypeOK
  <2>. QED
    BY <1>1, <1>4, <2>1 DEF Create
<1>. QED
  BY <1>2, <1>3, <1>4 DEF Operator

(* Every step touches the data of at most one role, and not both its file  *)
(* and its entry.                                                          *)
LEMMA NextTouches ==
    ASSUME TypeOK, [Next]_vars
    PROVE  SameData \/ \E a \in ARN : OneRoleChanges(a)
<1>1. ASSUME NEW c \in Callers, NEW a \in ARN, GetPolicy(c, a)
      PROVE  SameData
  BY <1>1 DEF GetPolicy, Lookup, SameData, fsVars, opVars
<1>2. CASE PreWarm
  <2>1. CASE Load(Boot)
    BY <2>1, LoadTouches DEF Process
  <2>2. CASE PreWarmEnd
    BY <2>2 DEF PreWarmEnd, SameData, fsVars, opVars
  <2>3. ASSUME NEW a \in ARN, PreWarmNext(a)
        PROVE  SameData
    BY <2>3 DEF PreWarmNext, Lookup, SameData, fsVars, opVars
  <2>. QED
    BY <1>2, <2>1, <2>2, <2>3 DEF PreWarm
<1>3. CASE UNCHANGED vars
  BY <1>3 DEF vars, SameData
<1>4. ASSUME NEW c \in Callers, Load(c)
      PROVE  \E a \in ARN : OneRoleChanges(a)
  BY <1>4, LoadTouches DEF Process
<1>. QED
  BY <1>1, <1>2, <1>3, <1>4, WatchFilesTouches, OperatorTouches DEF Next

(* The cache, its watcher, its callers and the operator together implement *)
(* the register: what is served for a role is nothing or its policy, but   *)
(* while a change of it is still to be dealt with.                         *)
THEOREM CacheImplementsRegister == Spec => ImplementsRegister
<1>1. Init => Register!Init
  <2>. SUFFICES ASSUME Init PROVE Register!Init
    OBVIOUS
  <2>1. [a \in ARN |-> Marked(a)] = [a \in ARN |-> FALSE]
    BY DEF Init, Marked
  <2>. QED
    BY <2>1 DEF Init, Register!Init
<1>2. IInv /\ IInv' /\ [Next]_vars => [Register!Next]_(Register!rvars)
  <2>. SUFFICES ASSUME IInv, IInv', [Next]_vars
                PROVE  [Register!Next]_(Register!rvars)
    OBVIOUS
  <2>1. TypeOK /\ TypeOK' /\ StaleOnlyIfPendingOrRaced'
    BY DEF IInv
  <2>2. CASE SameData
    BY <2>2 DEF SameData, Marked, Register!rvars
  <2>3. ASSUME NEW a \in ARN, OneRoleChanges(a)
        PROVE  Register!Next
    BY <2>1, <2>3, OneRoleStep DEF OneRoleChanges
  <2>. QED
    BY <2>1, <2>2, <2>3, NextTouches
<1>. QED
  BY <1>1, <1>2, InductiveInvariant, PTL DEF Spec, ImplementsRegister, Register!Spec
============================================================================
