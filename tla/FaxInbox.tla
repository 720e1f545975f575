------------------------------ MODULE FaxInbox ------------------------------
(***************************************************************************)
(* What the gateway promises about the faxes it receives, whatever threads *)
(* and files do the work.  The faxes wait in the order in which they       *)
(* arrived or were found.  One leaves the queue only from its front, for a *)
(* client, or because it is cancelled, and then its document goes with it. *)
(* After a restart every document that is stored is found again, once,     *)
(* before the search is over.  FaxQueue and FaxDownload both implement it. *)
(***************************************************************************)
EXTENDS Naturals, Sequences, SequencesExt

CONSTANTS
    Faxes,
    Jobs,               \* the downloads there may be
    None                \* a job that does nothing

VARIABLES
    queue,              \* the faxes waiting for a client
    job,                \* the fax each job is to deliver
    stored,             \* the faxes that have a document
    unread,             \* those a search may still come across ...
    pending             \* ... and those it must find

vars == <<queue, job, stored, unread, pending>>

Idle == [j \in Jobs |-> None]

Init ==
    /\ queue = <<>> /\ job = Idle
    /\ stored \in SUBSET Faxes /\ unread \in SUBSET Faxes
    /\ pending = stored /\ pending \subseteq unread

-----------------------------------------------------------------------------
Begin(j, f) ==
    /\ job[j] = None
    /\ job' = [job EXCEPT ![j] = f]
    /\ UNCHANGED <<queue, stored, unread, pending>>

Store(j) ==
    /\ job[j] # None
    /\ stored' = stored \cup {job[j]}
    /\ UNCHANGED <<queue, job, unread, pending>>

Ends(j) == job[j] # None /\ job' = [job EXCEPT ![j] = None]

Deliver(j) ==
    /\ Ends(j)
    /\ queue' = Append(queue, job[j])
    /\ UNCHANGED <<stored, unread, pending>>

GiveUp(j) == Ends(j) /\ UNCHANGED <<queue, stored, unread, pending>>

-----------------------------------------------------------------------------
\* A client gets the fax at the front; its document stays.
Take ==
    /\ queue # <<>>
    /\ queue' = Tail(queue)
    /\ UNCHANGED <<job, stored, unread, pending>>

Cancel(i) ==
    /\ queue' = RemoveAt(queue, i)
    /\ stored' = stored \ {queue[i]}
    /\ pending' = pending \ {queue[i]}
    /\ UNCHANGED <<job, unread>>

-----------------------------------------------------------------------------
(* The search after a restart.  It may be over at once.                    *)

Find(f) ==
    /\ f \in unread \cap stored
    /\ queue' = Append(queue, f)
    /\ unread' = unread \ {f} /\ pending' = pending \ {f}
    /\ UNCHANGED <<job, stored>>

SearchEnds ==
    /\ pending = {}
    /\ unread' = {}
    /\ UNCHANGED <<queue, job, stored, pending>>

Restart ==
    /\ job' = Idle
    /\ IsInjective(queue') /\ Range(queue') \subseteq stored
    /\ pending' = stored \ Range(queue')
    /\ unread' \in SUBSET (Faxes \ Range(queue')) /\ pending' \subseteq unread'
    /\ UNCHANGED stored

-----------------------------------------------------------------------------
Next ==
    \/ \E j \in Jobs : \/ \E f \in Faxes : Begin(j, f)
                       \/ Store(j) \/ Deliver(j) \/ GiveUp(j)
    \/ Take \/ \E i \in 1 .. Len(queue) : Cancel(i)
    \/ SearchEnds \/ \E f \in Faxes : Find(f)
    \/ Restart

Spec == Init /\ [][Next]_vars
=============================================================================
