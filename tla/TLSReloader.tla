---------------------------- MODULE TLSReloader ----------------------------
(***************************************************************************)
(* The certificate reloader of server/tls_reloader.go: a goroutine reloads *)
(* the key pair when fsnotify reports a write to one of its two files, and *)
(* watches a file again that was removed or replaced.  The first load runs *)
(* in the goroutine that starts the server, next to the watching one.      *)
(*                                                                         *)
(* A version of a file stands for its content.  Two files make a pair if   *)
(* they have the same version; a content that does not parse or that was   *)
(* only written in part is like one of another version.                    *)
(***************************************************************************)
EXTENDS FileWatch, Functions

CONSTANTS
    MaxVersion,  \* bound on the versions the operator installs
    Changes      \* what the operator does: "write", "replace", "remove"

ASSUME ReloaderAssumption ==
    /\ MaxVersion \in Nat \ {0}
    /\ Changes \subseteq {"write", "replace", "remove"}

File == {"cert", "key"}
Version == 1 .. MaxVersion
Process == {"Boot", "Watcher"}

VARIABLES
    disk,      \* the version of a file, the last one if it was removed
    present,   \* whether there is a file
    watched,   \* fsnotify: is the present file watched
    events,    \* fsnotify: the events of a file not yet received
    boot,      \* newTLSCertificateReloader, and what became of it
    pc,        \* where a goroutine is
    got,       \* the version of the certificate it read
    working,   \* the file whose event the watching goroutine handles
    served,    \* r.cert, 0 before the first load
    raced      \* history: the last reload began while the first load ran

diskVars == <<disk, present>>
fsVars == <<watched, events>>
procVars == <<pc, got, working>>
vars == <<diskVars, fsVars, boot, procVars, served, raced>>

(* Types.  Once the server is up it has a certificate to serve.            *)
TypeOK ==
    /\ disk \in [File -> Version] /\ present \in [File -> BOOLEAN]
    /\ watched \in [File -> BOOLEAN] /\ events \in [File -> Seq(EventKind)]
    /\ boot \in {"cert", "key", "load", "up", "failed", "refused", "closed"}
    /\ pc \in [Process -> {"idle", "cert", "key", "store", "unwatch", "rewatch"}]
    /\ got \in [Process -> {0} \cup Version]
    /\ working \in File
    /\ served \in {0} \cup Version /\ raced \in BOOLEAN
    /\ boot \in {"up", "closed"} => served # 0

Init ==
    /\ disk \in [File -> Version] /\ present \in [File -> BOOLEAN]
    /\ watched = [f \in File |-> FALSE] /\ events = [f \in File |-> <<>>]
    /\ boot = "cert"
    /\ pc = [p \in Process |-> "idle"]
    /\ got = [p \in Process |-> 0]
    /\ working = "cert"
    /\ served = 0 /\ raced = FALSE

Goto(p, s) == pc' = [pc EXCEPT ![p] = s]

----------------------------------------------------------------------------
(* loadLocked, by goroutine p                                              *)

(* Not the code: the first load is as tolerant as the others.              *)
LoadFailsTolerantly(p) ==
    /\ Goto(p, "idle")
    /\ boot' = IF p = "Boot" THEN "up" ELSE boot

(* An error: the server does not start, or keeps what it has.              *)
LoadFails(p) ==
    /\ Goto(p, "idle")
    /\ boot' = IF p = "Boot" THEN "failed" ELSE boot

(* tls.LoadX509KeyPair reads the certificate, then the key ...             *)
ReadCert(p) ==
    /\ pc[p] = "cert"
    /\ \/ /\ present["cert"]
          /\ got' = [got EXCEPT ![p] = disk["cert"]]
          /\ Goto(p, "key") /\ UNCHANGED boot
       \/ /\ ~ present["cert"]
          /\ LoadFails(p) /\ UNCHANGED got
    /\ UNCHANGED <<diskVars, fsVars, working, served, raced>>

(* Not the code: the result is stored before the error is looked at.       *)
ReadKeyAndStore(p) ==
    /\ pc[p] = "key"
    /\ \/ /\ present["key"] /\ disk["key"] = got[p]
          /\ Goto(p, "store") /\ UNCHANGED <<boot, served>>
       \/ /\ ~ (present["key"] /\ disk["key"] = got[p])
          /\ LoadFails(p) /\ served' = 0
    /\ UNCHANGED <<diskVars, fsVars, got, working, raced>>

(* ... which must belong to it.                                            *)
ReadKey(p) ==
    /\ pc[p] = "key"
    /\ \/ /\ present["key"] /\ disk["key"] = got[p]
          /\ Goto(p, "store") /\ UNCHANGED boot
       \/ /\ ~ (present["key"] /\ disk["key"] = got[p])
          /\ LoadFails(p)
    /\ UNCHANGED <<diskVars, fsVars, got, working, served, raced>>

(* The pair is stored under the lock.                                      *)
StorePair(p) ==
    /\ pc[p] = "store"
    /\ served' = got[p]
    /\ boot' = IF p = "Boot" THEN "up" ELSE boot
    /\ Goto(p, "idle")
    /\ UNCHANGED <<diskVars, fsVars, got, working, raced>>

Load(p) == ReadCert(p) \/ ReadKey(p) \/ StorePair(p)

----------------------------------------------------------------------------
(* newTLSCertificateReloader and Close                                     *)

(* watcher.Add on an existing file                                         *)
Add(f) ==
    /\ watched' = [watched EXCEPT ![f] = TRUE]
    /\ \E q \in AfterAdd(watched[f], events[f]) : events' = [events EXCEPT ![f] = q]

(* Both files must be there to be watched, or the watcher is closed; then  *)
(* the goroutine is started, and the first load begins.                    *)
WatchFile(f, next) ==
    /\ boot = f
    /\ \/ /\ present[f] /\ Add(f)
          /\ boot' = next
          /\ pc' = [pc EXCEPT !["Boot"] = IF next = "load" THEN "cert" ELSE @]
       \/ /\ ~ present[f]
          /\ boot' = "refused"
          /\ UNCHANGED <<fsVars, pc>>
    /\ UNCHANGED <<diskVars, got, working, served, raced>>

Start == WatchFile("cert", "key") \/ WatchFile("key", "load") \/ Load("Boot")

(* The server shuts down: no more events.                                  *)
Close ==
    /\ boot = "up"
    /\ boot' = "closed"
    /\ watched' = [f \in File |-> FALSE]
    /\ events' = [f \in File |-> <<>>]
    /\ UNCHANGED <<diskVars, procVars, served, raced>>

----------------------------------------------------------------------------
(* watchLoop                                                               *)

(* Not the code: the goroutine is started before the second file is        *)
(* watched.                                                                *)
ReceiveEarly(f, kind) ==
    /\ boot \in {"key", "load", "up", "failed"} /\ pc["Watcher"] = "idle"
    /\ events[f] # <<>> /\ Head(events[f]) = kind
    /\ events' = [events EXCEPT ![f] = Tail(@)]
    /\ working' = f
    /\ UNCHANGED <<diskVars, watched, boot, got, served>>

(* The goroutine receives an event, also if the first load has failed:     *)
(* nobody closes the watcher then.                                         *)
Receive(f, kind) ==
    /\ boot \in {"load", "up", "failed"} /\ pc["Watcher"] = "idle"
    /\ events[f] # <<>> /\ Head(events[f]) = kind
    /\ events' = [events EXCEPT ![f] = Tail(@)]
    /\ working' = f
    /\ UNCHANGED <<diskVars, watched, boot, got, served>>

(* Not the code: events of the key file are ignored, as if the certificate *)
(* were always written last.                                               *)
FileWrittenCertOnly(f) ==
    /\ Receive(f, "write") /\ Goto("Watcher", IF f = "cert" THEN "cert" ELSE "idle")
    /\ raced' = IF f = "cert" THEN boot = "load" ELSE raced

(* A write makes it reload,                                                *)
FileWritten(f) ==
    Receive(f, "write") /\ Goto("Watcher", "cert") /\ raced' = (boot = "load")

(* a removal only makes it watch again (rearmWatch): watcher.Remove, then  *)
(* os.Stat and, if there is a file, watcher.Add.                           *)
FileRemoved(f) == Receive(f, "remove") /\ Goto("Watcher", "unwatch") /\ UNCHANGED raced

StopWatching ==
    /\ pc["Watcher"] = "unwatch"
    /\ watched' = [watched EXCEPT ![working] = FALSE]
    /\ \E q \in Dropped(events[working]) : events' = [events EXCEPT ![working] = q]
    /\ Goto("Watcher", "rewatch")
    /\ UNCHANGED <<diskVars, boot, got, working, served, raced>>

RearmWatch ==
    /\ pc["Watcher"] = "rewatch"
    /\ IF boot # "closed" /\ present[working] THEN Add(working) ELSE UNCHANGED fsVars
    /\ Goto("Watcher", "idle")
    /\ UNCHANGED <<diskVars, boot, got, working, served, raced>>

WatchLoop ==
    \/ \E f \in File : FileWritten(f) \/ FileRemoved(f)
    \/ Load("Watcher")
    \/ StopWatching \/ RearmWatch

----------------------------------------------------------------------------
(* The operator installs newer versions of the files, one at a time.       *)

Reports(f, kind) ==
    \E q \in AfterChange(watched[f], events[f], kind) : events' = [events EXCEPT ![f] = q]

WriteInPlace(f, v) ==
    /\ "write" \in Changes /\ present[f] /\ v > disk[f]
    /\ disk' = [disk EXCEPT ![f] = v]
    /\ Reports(f, "write")
    /\ UNCHANGED <<present, watched>>

(* Another file is renamed over it.                                        *)
Replace(f, v) ==
    /\ "replace" \in Changes /\ present[f] /\ v > disk[f]
    /\ disk' = [disk EXCEPT ![f] = v]
    /\ Reports(f, "remove")
    /\ watched' = [watched EXCEPT ![f] = FALSE]
    /\ UNCHANGED present

Remove(f) ==
    /\ "remove" \in Changes /\ present[f]
    /\ present' = [present EXCEPT ![f] = FALSE]
    /\ Reports(f, "remove")
    /\ watched' = [watched EXCEPT ![f] = FALSE]
    /\ UNCHANGED disk

Create(f, v) ==
    /\ "remove" \in Changes /\ ~ present[f] /\ v > disk[f]
    /\ present' = [present EXCEPT ![f] = TRUE]
    /\ disk' = [disk EXCEPT ![f] = v]
    /\ UNCHANGED fsVars

Operator ==
    /\ \E f \in File :
          Remove(f) \/ \E v \in Version : WriteInPlace(f, v) \/ Replace(f, v) \/ Create(f, v)
    /\ UNCHANGED <<boot, procVars, served, raced>>

----------------------------------------------------------------------------
Next == boot # "refused" /\ (Start \/ WatchLoop \/ Close \/ Operator)

Spec == Init /\ [][Next]_vars

(* Both goroutines run on; nobody has to change the files.                 *)
FairSpec ==
    Spec /\ WF_vars(boot # "refused" /\ Start) /\ WF_vars(boot # "refused" /\ WatchLoop)

----------------------------------------------------------------------------
(* Properties                                                              *)

Pair(v) == \A f \in File : present[f] /\ disk[f] = v
AtRest == \A f \in File : events[f] = <<>> /\ \A p \in Process : pc[p] = "idle"

(* When nothing is left to do the pair on disk is the one that is served   *)
(* (server.go: the "pair can be updated on disk [...] without restarting   *)
(* the process").                                                          *)
UpToDate == \A v \in Version : boot = "up" /\ AtRest /\ Pair(v) => served = v

(* loadLocked, with its reads outside of the lock, replaces the certificate*)
(* by an older one only if the first load and a reload overlap: the one    *)
(* that read first may store last ("if they change we should not have a    *)
(* race condition", newTLSCertificateReloader, is not so).  One goroutine  *)
(* does all other loads, and a reload that fails keeps the certificate.    *)
NeverOlder == [][served' < served => raced]_vars

HasRead(p) == pc[p] \in {"key", "store"}

(* The strengthening of NeverOlder: a load that no other one overlaps has  *)
(* read what is not older than what is served, and the first load finds    *)
(* nothing served yet.                                                     *)
IInv ==
    /\ TypeOK
    /\ boot \in {"cert", "key"} => \A p \in Process : pc[p] = "idle"
    /\ boot \in {"cert", "key", "load"} /\ ~ raced =>
          served = 0 /\ pc["Watcher"] \notin {"cert", "key", "store"}
    /\ pc["Boot"] # "idle" => boot = "load"
    /\ served <= disk["cert"]
    /\ \A p \in Process : HasRead(p) => got[p] \in 1 .. disk["cert"]
    /\ \A p \in Process : HasRead(p) /\ ~ raced => got[p] >= served

(* A pair that is completed by a write in place is served in the end if it *)
(* stays on disk, also after files were replaced: the reload that follows  *)
(* the first of two writes fails, the one that follows the second does not,*)
(* and no event of a write is lost while a watch is renewed.               *)
WrittenPairIsServed ==
    \A v \in Version :
        (boot = "up" /\ Pair(v) /\ \E f \in File : "write" \in Range(events[f]))
            ~> (served = v \/ ~ Pair(v) \/ boot = "closed")
============================================================================
