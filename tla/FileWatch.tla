----------------------------- MODULE FileWatch -----------------------------
(***************************************************************************)
(* What fakes3pp relies on of fsnotify/inotify, the library behind the     *)
(* policy cache (aws/service/iam/policy-retrieval.go) and the TLS          *)
(* certificate reloader (server/tls_reloader.go).  External code: modelled *)
(* from how both use it.                                                   *)
(*                                                                         *)
(* A watch is attached to the file (inode) that has the name when Add is   *)
(* called, not to the name: it reports a write in place as "write", and    *)
(* the deletion of the file, or another file renamed over it, as "remove", *)
(* after which the watch is gone.  A file is described by                  *)
(*    watched  whether the file that has the name now is watched           *)
(*    events   what happened to it and was not yet received                *)
(* The reader of the events is one goroutine in both uses; it may see the  *)
(* events of different names in any order here.                            *)
(***************************************************************************)
EXTENDS Naturals, Sequences

EventKind == {"write", "remove"}

(* The queues that can result when kind is reported after queue q: the     *)
(* kernel may merge it with an equal event at the end of the queue.        *)
Reported(q, kind) ==
    {Append(q, kind)} \cup {r \in {q} : q # <<>> /\ q[Len(q)] = kind}

(* The queues that can be left of q when the watch that filled it is       *)
(* dropped: its events are skipped, but for the one fsnotify may already   *)
(* have resolved to a name and be handing over.                            *)
Dropped(q) == {<<>>} \cup {<<q[i]>> : i \in DOMAIN q \cap {1}}

(* Queues after a change of the file by someone else.                      *)
AfterChange(watched, q, kind) == IF watched THEN Reported(q, kind) ELSE {q}

(* Queues after watcher.Add(name) on an existing file: a watch on a new    *)
(* file replaces the one on its predecessor, and nothing changes when the  *)
(* file was watched already.                                               *)
AfterAdd(watched, q) == IF watched THEN {q} ELSE Dropped(q)
============================================================================
