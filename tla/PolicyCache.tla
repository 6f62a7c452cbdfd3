---------------------------- MODULE PolicyCache ----------------------------
(***************************************************************************)
(* The policy cache of aws/service/iam/policy-retrieval.go: a              *)
(* PolicyManager over a LocalPolicyRetriever.  A policy of a role is a     *)
(* template in a file whose name is the base32 of the role's ARN.  Callers *)
(* (request handlers of the S3 and STS proxies) get templates through the  *)
(* cache, an operator edits the files, and one fsnotify goroutine          *)
(* invalidates the entries whose file changed.                             *)
(*                                                                         *)
(* The lock tMux only protects single accesses to the map: between the     *)
(* lookup, startWatching, the read of the file and the store of its        *)
(* template everything else may run, which is why each is a step here.     *)
(***************************************************************************)
EXTENDS FileWatch

CONSTANTS
    ARN,        \* the roles
    Contents,   \* what a policy file can hold
    Unparsable, \* the contents template.Parse refuses
    None,       \* no file, no cached template, no answer (an error)
    Callers,    \* the goroutines that ask for policies
    Boot,       \* the start-up of the server, which prewarms the cache
    Watcher,    \* the goroutine that receives the file events
    MaxChanges  \* bound on the changes the operator makes

LoadStep == {"miss", "added", "read"}   \* in getPolicyTemplate, after a miss
RearmStep == {"unwatch", "rewatch"}     \* in restartWatching

ASSUME ContentsAssumption ==
    /\ None \notin Contents /\ None \notin ARN
    /\ Unparsable \subseteq Contents

ASSUME ProcessAssumption ==
    /\ Boot \notin Callers /\ Watcher \notin Callers /\ Boot # Watcher
    /\ MaxChanges \in Nat

Process == Callers \cup {Boot, Watcher}

VARIABLES
    file,       \* the policy files
    watched,    \* fsnotify: is the present file of an ARN watched
    events,     \* fsnotify: the events of a file not yet received
    templates,  \* PolicyManager.templates
    pc,         \* where a goroutine is
    arn,        \* the ARN it works for
    got,        \* the content it read, or the answer of its last call
    boot,       \* "warming", "up", or "failed": buildS3Server panics
    todo,       \* the identifiers PreWarm has still to load
    changes,    \* the number of changes the operator has made
    raced       \* history: where changes slipped past, see Overtaken

vars == <<file, watched, events, templates, pc, arn, got, boot, todo, changes, raced>>
fsVars == <<watched, events>>
procVars == <<pc, arn, got>>
bootVars == <<boot, todo>>
opVars == <<changes, raced>>

Race == {"load", "rearm"}

(* Types.  Only templates that parsed are cached, and a goroutine at work  *)
(* has a role, and a content once it has read the file.                    *)
TypeOK ==
    /\ file \in [ARN -> Contents \cup {None}]
    /\ watched \in [ARN -> BOOLEAN]
    /\ events \in [ARN -> Seq(EventKind)]
    /\ templates \in [ARN -> (Contents \ Unparsable) \cup {None}]
    /\ pc \in [Process -> {"idle", "lookup"} \cup LoadStep \cup RearmStep]
    /\ arn \in [Process -> ARN \cup {None}]
    /\ got \in [Process -> Contents \cup {None}]
    /\ boot \in {"warming", "up", "failed"}
    /\ todo \in SUBSET ARN
    /\ changes \in Nat
    /\ raced \in [ARN -> SUBSET Race]
    \* a goroutine that is at work is at work for some role
    /\ \A p \in Process : pc[p] # "idle" => arn[p] \in ARN
    /\ \A p \in Process : pc[p] = "read" => got[p] # None
    /\ \A p \in Process \ {Watcher} : pc[p] \in {"idle"} \cup LoadStep

(* The cache is empty and PreWarm has listed the files that exist          *)
(* (retrieveAllIdentifiers).                                               *)
Init ==
    /\ file \in [ARN -> Contents \cup {None}]
    /\ watched = [a \in ARN |-> FALSE]
    /\ events = [a \in ARN |-> <<>>]
    /\ templates = [a \in ARN |-> None]
    /\ pc = [p \in Process |-> "idle"]
    /\ arn = [p \in Process |-> None]
    /\ got = [p \in Process |-> None]
    /\ boot = "warming"
    /\ todo = {a \in ARN : file[a] # None}
    /\ changes = 0
    /\ raced = [a \in ARN |-> {}]

----------------------------------------------------------------------------
(* getPolicyTemplate, by goroutine p                                       *)

(* A call returns content c, or an error if c is None.                     *)
Return(p, c) ==
    /\ got' = [got EXCEPT ![p] = c]
    /\ pc' = [pc EXCEPT ![p] = "idle"]

(* getPolicyTemplateFromCache: a hit is returned at once.                  *)
Lookup(p, a) ==
    /\ arn' = [arn EXCEPT ![p] = a]
    /\ \/ /\ templates[a] # None
          /\ Return(p, templates[a])
       \/ /\ templates[a] = None
          /\ pc' = [pc EXCEPT ![p] = "miss"]
          /\ UNCHANGED got
    /\ UNCHANGED <<file, fsVars, templates, opVars>>

(* watcher.Add(name): fails, which the code only logs, if there is no file.*)
Add(a) ==
    \/ /\ file[a] = None
       /\ UNCHANGED fsVars
    \/ /\ file[a] # None
       /\ watched' = [watched EXCEPT ![a] = TRUE]
       /\ \E q \in AfterAdd(watched[a], events[a]) :
             events' = [events EXCEPT ![a] = q]

(* Not the code: the file is read without a watch on it.                   *)
SkipWatching(p) ==
    /\ pc[p] = "miss"
    /\ pc' = [pc EXCEPT ![p] = "added"]
    /\ UNCHANGED <<file, fsVars, templates, arn, got, bootVars, opVars>>

(* retrievePolicyStr starts with startWatching ...                         *)
StartWatching(p) ==
    /\ pc[p] = "miss"
    /\ Add(arn[p])
    /\ pc' = [pc EXCEPT ![p] = "added"]
    /\ UNCHANGED <<file, templates, arn, got, bootVars, opVars>>

(* ... and then reads the file, whatever became of the watch.              *)
ReadFile(p) ==
    /\ pc[p] = "added"
    /\ \/ /\ file[arn[p]] = None
          /\ Return(p, None)
       \/ /\ file[arn[p]] # None
          /\ got' = [got EXCEPT ![p] = file[arn[p]]]
          /\ pc' = [pc EXCEPT ![p] = "read"]
    /\ UNCHANGED <<file, fsVars, templates, arn, bootVars, opVars>>

(* Not the code: the content is stored before it is parsed.                *)
StoreThenParse(p) ==
    /\ pc[p] = "read"
    /\ Return(p, IF got[p] \in Unparsable THEN None ELSE got[p])
    /\ templates' = [templates EXCEPT ![arn[p]] = got[p]]
    /\ UNCHANGED <<file, fsVars, arn, bootVars, opVars>>

(* The content is parsed, and stored under the lock if that succeeds.      *)
StoreTemplate(p) ==
    /\ pc[p] = "read"
    /\ \/ /\ got[p] \in Unparsable
          /\ Return(p, None)
          /\ UNCHANGED templates
       \/ /\ got[p] \notin Unparsable
          /\ Return(p, got[p])
          /\ templates' = [templates EXCEPT ![arn[p]] = got[p]]
    /\ UNCHANGED <<file, fsVars, arn, bootVars, opVars>>

(* GetPolicy or DoesPolicyExist, called by a request handler.              *)
GetPolicy(c, a) ==
    /\ boot = "up"
    /\ pc[c] = "idle"
    /\ Lookup(c, a)
    /\ UNCHANGED bootVars

----------------------------------------------------------------------------
(* PreWarm: loads what was listed, and gives up at the first error.        *)

WarmSoFar == arn[Boot] = None \/ got[Boot] # None

PreWarmNext(a) ==
    /\ boot = "warming" /\ pc[Boot] = "idle"
    /\ WarmSoFar
    /\ a \in todo
    /\ todo' = todo \ {a}
    /\ Lookup(Boot, a)
    /\ UNCHANGED boot

PreWarmEnd ==
    /\ boot = "warming" /\ pc[Boot] = "idle"
    /\ \/ ~ WarmSoFar /\ boot' = "failed"
       \/ WarmSoFar /\ todo = {} /\ boot' = "up"
    /\ UNCHANGED <<file, fsVars, templates, procVars, todo, opVars>>

----------------------------------------------------------------------------
(* The goroutine of createFileWatcherAndStartWatching                      *)

(* The entry goes with the event, so that no change is missed any longer   *)
(* (raced), but for one that a load under way may still slip past.         *)
RacedAfterEvent(a) ==
    IF \E p \in Process \ {Watcher} : arn[p] = a /\ pc[p] \in LoadStep
    THEN raced ELSE [raced EXCEPT ![a] = {}]

(* Not the code: the callbacks leave out deletePolicyCacheEntry, so that   *)
(* the lookup of fileUpdated is a hit.                                     *)
ReceiveAndKeep(a, kind, next) ==
    /\ pc[Watcher] = "idle"
    /\ events[a] # <<>> /\ Head(events[a]) = kind
    /\ events' = [events EXCEPT ![a] = Tail(events[a])]
    /\ arn' = [arn EXCEPT ![Watcher] = a]
    /\ pc' = [pc EXCEPT ![Watcher] = next]
    /\ raced' = RacedAfterEvent(a)
    /\ UNCHANGED <<file, watched, templates, got, bootVars, changes>>

(* It receives an event and calls the callback, which begins with          *)
(* deletePolicyCacheEntry.                                                 *)
Receive(a, kind, next) ==
    /\ pc[Watcher] = "idle"
    /\ events[a] # <<>> /\ Head(events[a]) = kind
    /\ events' = [events EXCEPT ![a] = Tail(events[a])]
    /\ templates' = [templates EXCEPT ![a] = None]
    /\ arn' = [arn EXCEPT ![Watcher] = a]
    /\ pc' = [pc EXCEPT ![Watcher] = next]
    /\ raced' = RacedAfterEvent(a)
    /\ UNCHANGED <<file, watched, got, bootVars, changes>>

(* fileUpdated goes on with getPolicyTemplate.                             *)
FileUpdated(a) == Receive(a, "write", "lookup")

Reload ==
    /\ pc[Watcher] = "lookup"
    /\ Lookup(Watcher, arn[Watcher])
    /\ UNCHANGED bootVars

(* Not the code: fileDeleted leaves out deletePolicyCacheEntry.            *)
FileDeletedKeeps(a) == ReceiveAndKeep(a, "remove", "unwatch")

(* After fileDeleted comes restartWatching: watcher.Remove, then os.Stat   *)
(* and, if there is a file again, watcher.Add.                             *)
FileDeleted(a) == Receive(a, "remove", "unwatch")

StopWatching ==
    /\ pc[Watcher] = "unwatch"
    /\ watched' = [watched EXCEPT ![arn[Watcher]] = FALSE]
    /\ \E q \in Dropped(events[arn[Watcher]]) :
          events' = [events EXCEPT ![arn[Watcher]] = q]
    /\ pc' = [pc EXCEPT ![Watcher] = "rewatch"]
    /\ UNCHANGED <<file, templates, arn, got, bootVars, opVars>>

(* Not the code: os.Stat is missing, and the goroutine gives up when there *)
(* is no file to watch.                                                    *)
GiveUpRestarting ==
    /\ pc[Watcher] = "rewatch"
    /\ file[arn[Watcher]] # None
    /\ Add(arn[Watcher])
    /\ pc' = [pc EXCEPT ![Watcher] = "idle"]
    /\ UNCHANGED <<file, templates, arn, got, bootVars, opVars>>

(* Not the code: the watch is not added again.                             *)
ForgetToRestart ==
    /\ pc[Watcher] = "rewatch"
    /\ pc' = [pc EXCEPT ![Watcher] = "idle"]
    /\ UNCHANGED <<file, fsVars, templates, arn, got, bootVars, opVars>>

RestartWatching ==
    /\ pc[Watcher] = "rewatch"
    /\ Add(arn[Watcher])
    /\ pc' = [pc EXCEPT ![Watcher] = "idle"]
    /\ UNCHANGED <<file, templates, arn, got, bootVars, opVars>>

----------------------------------------------------------------------------
(* The operator of the proxy edits the policy files.                       *)

(* Nothing keeps the operator out while a goroutine loads the file or      *)
(* watches it again.  These are the windows in which a change can be       *)
(* missed: a write in place by a load that has read the file already,      *)
(* unless it is the Watcher's own, which gets the event of the write       *)
(* afterwards; another file at the name by any load, since the watch or    *)
(* its events may be those of the old file; either by restartWatching.     *)
OpenTo(p, inPlace) ==
    CASE ~ inPlace -> LoadStep \cup RearmStep
      [] inPlace /\ p = Watcher -> RearmStep
      [] inPlace /\ p # Watcher -> {"read"} \cup RearmStep

Overtaken(a, inPlace) ==
    LET open == {pc[p] : p \in {q \in Process : arn[q] = a /\ pc[q] \in OpenTo(q, inPlace)}}
    IN {k \in {"load"} : open \cap LoadStep # {}} \cup {k \in {"rearm"} : open \cap RearmStep # {}}

(* Where that happens is recorded in raced, which no step depends on.      *)
Change(a, c, inPlace) ==
    /\ changes < MaxChanges
    /\ file' = [file EXCEPT ![a] = c]
    /\ changes' = changes + 1
    /\ raced' = [raced EXCEPT ![a] = @ \cup Overtaken(a, inPlace)]
    /\ UNCHANGED <<templates, procVars, bootVars>>

(* A save in place; a truncation followed by a write is two of these.      *)
WriteInPlace(a, c) ==
    /\ file[a] # None
    /\ Change(a, c, TRUE)
    /\ \E q \in AfterChange(watched[a], events[a], "write") :
          events' = [events EXCEPT ![a] = q]
    /\ UNCHANGED watched

(* The file is unlinked (c = None), or another one is renamed over it.     *)
Unlink(a, c) ==
    /\ file[a] # None
    /\ Change(a, c, FALSE)
    /\ \E q \in AfterChange(watched[a], events[a], "remove") :
          events' = [events EXCEPT ![a] = q]
    /\ watched' = [watched EXCEPT ![a] = FALSE]

Create(a, c) ==
    /\ file[a] = None
    /\ Change(a, c, FALSE)
    /\ UNCHANGED fsVars

----------------------------------------------------------------------------
Load(p) == StartWatching(p) \/ ReadFile(p) \/ StoreTemplate(p)

PreWarm == Load(Boot) \/ PreWarmEnd \/ \E a \in ARN : PreWarmNext(a)

WatchFiles ==
    \/ Load(Watcher) \/ Reload \/ StopWatching \/ RestartWatching
    \/ \E a \in ARN : FileUpdated(a) \/ FileDeleted(a)

Operator ==
    \E a \in ARN :
        \/ \E c \in Contents : WriteInPlace(a, c) \/ Create(a, c)
        \/ \E c \in Contents \cup {None} : Unlink(a, c)

Next ==
    /\ boot # "failed"
    /\ \/ \E c \in Callers : Load(c) \/ \E a \in ARN : GetPolicy(c, a)
       \/ PreWarm
       \/ WatchFiles
       \/ Operator

Spec == Init /\ [][Next]_vars

(* The goroutines that have work to do are scheduled; nobody has to ask    *)
(* for a policy and nobody has to edit one.                                *)
FairSpec ==
    /\ Spec
    /\ WF_vars(boot # "failed" /\ WatchFiles)
    /\ WF_vars(boot # "failed" /\ PreWarm)
    /\ \A c \in Callers : WF_vars(boot # "failed" /\ Load(c))

----------------------------------------------------------------------------
(* Properties                                                              *)

Stale(a) == templates[a] \notin {None, file[a]}
Rearming(a) == arn[Watcher] = a /\ pc[Watcher] \in RearmStep
Loading(a) == \E p \in Process : arn[p] = a /\ pc[p] \in LoadStep

(* The change of a role that is still to be dealt with, or was missed.     *)
Marked(a) == events[a] # <<>> \/ raced[a] # {}

(* Cache invalidation: a template that is not the present content of its   *)
(* file is cached only while an event for the file is on its way to the    *)
(* goroutine that deletes the entry (fileUpdated, fileDeleted), or after a *)
(* change that came while the file was being loaded or watched again, and  *)
(* then until the next event of the file.                                  *)
StaleOnlyIfPendingOrRaced == \A a \in ARN : Stale(a) => Marked(a)

(* What a call of getPolicyTemplate is told, by a request handler or by    *)
(* PreWarm: an error only if there is no policy that parses, a template    *)
(* that differs from the file only while the event of that change is       *)
(* pending; either may be outdated after a change that slipped past.       *)
Ask(p) == Load(p) \/ \E a \in ARN : GetPolicy(p, a) \/ (p = Boot /\ PreWarmNext(a))

AnswerIsCurrent ==
    [][\A p \in Callers \cup {Boot} :
          Ask(p) /\ pc'[p] = "idle"
          => LET a == arn'[p] IN
             \/ got'[p] = None /\ file[a] \in Unparsable \cup {None}
             \/ got'[p] # None /\ (got'[p] = file[a] \/ events[a] # <<>>)
             \/ raced[a] # {}]_vars

(* The same, where the operator has stopped and nothing is left to do:     *)
(* what the two cache invalidation tests wait for.  The first leaves out   *)
(* the races with restartWatching ...                                      *)
AtRest(a) == events[a] = <<>> /\ ~ Loading(a) /\ ~ Rearming(a) /\ pc[Watcher] = "idle"
(* ... and the second those with a load: a changed policy is not served    *)
(* any longer.                                                             *)
UpdateIsSeen ==
    \A a \in ARN : AtRest(a) /\ "load" \notin raced[a] /\ file[a] # None => ~ Stale(a)

(* The cache implements the register of PolicyRegister: a role is marked   *)
(* as changed while it has an event pending, and after a change the cache  *)
(* may have missed.                                                        *)
Register == INSTANCE PolicyRegister WITH
    Role <- ARN, Policy <- Contents,
    policy <- file, served <- templates, changed <- [a \in ARN |-> Marked(a)]
ImplementsRegister == Register!Spec

(* "in due time": the events of a file are all dealt with as long as the   *)
(* server runs, while callers load and restartWatching tries again.        *)
ChangesAreDealtWith ==
    [](boot # "failed") => \A a \in ARN : events[a] # <<>> ~> events[a] = <<>>

(* The strengthening of StaleOnlyIfPendingOrRaced that the steps preserve, *)
(* for a role of which no change has slipped past.  While restartWatching  *)
(* runs nothing stale is stored ...                                        *)
RearmingIsFresh == \A a \in ARN : Rearming(a) => ~ Stale(a) \/ raced[a] # {}

(* ... a cached role is watched, or will be again (startWatching,          *)
(* restartWatching).                                                       *)
CachedIsWatched ==
    \A a \in ARN : templates[a] # None => watched[a] \/ Rearming(a) \/ Marked(a)

(* So is a role that is being loaded, if it may end up in the cache.       *)
LoadingIsWatched ==
    \A p \in Process :
        LET a == arn[p] IN
        pc[p] \in LoadStep /\ raced[a] = {}
        => /\ templates[a] # None => watched[a] \/ Rearming(a)
           /\ pc[p] # "miss" /\ file[a] # None => watched[a] \/ Rearming(a)

(* What a load has read is the content of the file until it is stored, but *)
(* for the watcher's own load, whose next event corrects it.               *)
ReadIsCurrent ==
    \A p \in Process :
        LET a == arn[p] IN
        pc[p] = "read" /\ raced[a] = {}
        => /\ file[a] # None
           /\ got[p] = file[a] \/ (p = Watcher /\ events[a] # <<>>)

(* The inductive invariant.                                                *)
IInv ==
    /\ TypeOK
    /\ StaleOnlyIfPendingOrRaced
    /\ RearmingIsFresh
    /\ CachedIsWatched
    /\ LoadingIsWatched
    /\ ReadIsCurrent
============================================================================
