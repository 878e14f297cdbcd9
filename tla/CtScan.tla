------------------------------- MODULE CtScan -------------------------------
(***************************************************************************)
(* The CT-log scan of the certificate agent (ct.rs, driven by run_ct_scan  *)
(* of ree0xq_cert.rs).  A run loads the cursor file, lists the log for     *)
(* every domain, fetches what lies above the domain's mark, sends an event *)
(* for it to the collector, and writes the cursor file at its very end.    *)
(* Runs follow one another (a timer of the operator).  The log grows, list *)
(* and fetch requests fail, events are refused or lost, and the process    *)
(* dies anywhere, also inside the write of the file.                       *)
(*                                                                         *)
(* An entry carries one certificate.  The scan has a cursor file, and the  *)
(* order of its domains, which is the operator's, is left open.            *)
(***************************************************************************)
EXTENDS Naturals, FiniteSets, FiniteSetsExt

CONSTANTS
  Domain,      (* the domains that are scanned                               *)
  NoDomain,    (* not a domain                                               *)
  MaxId,       (* bound: entries of the log, numbered as crt.sh numbers them *)
  MaxFaults    (* bound: requests and writes that fail, deaths               *)

ASSUME CtAssumption ==
  /\ IsFiniteSet(Domain)
  /\ NoDomain \notin Domain
  /\ MaxId \in Nat
  /\ MaxFaults \in Nat

VARIABLES
  log,        (* per domain, the ids crt.sh lists for it                     *)
  top,        (* the last id crt.sh has given out                            *)
  file,       (* what the cursor file holds                                  *)
  pc,         (* where the scan is                                           *)
  seen,       (* Cursor.seen of the run                                      *)
  todo,       (* domains the run has not come to                             *)
  domain,     (* the domain being walked                                     *)
  entries,    (* its entries that are still to be walked                     *)
  new_max,
  inventory,  (* the entries <<domain, id>> the collector has an event of    *)
  failed,     (* history: entries whose fetch or event failed in some run    *)
  fresh,      (* history: entries this run has sent                          *)
  forgotten,  (* history: entries sent by runs whose cursor was not kept     *)
  again,      (* history: entries sent more than once                        *)
  faults

ghosts == <<fresh, forgotten, again>>
run    == <<seen, todo, domain, entries, new_max>>
vars   == <<log, top, file, pc, run, inventory, failed, ghosts, faults>>

Id      == 1..MaxId
Entry   == Domain \X Id
Marks   == [Domain -> 0..MaxId]
NoMarks == [d \in Domain |-> 0]

(* A cursor file holds marks, or is not one.                               *)
Holding(marks) == [kind |-> "cursor", marks |-> marks]
Without(kind)  == [kind |-> kind, marks |-> NoMarks]

TypeOK ==
  /\ log \in [Domain -> SUBSET Id]
  /\ top \in 0..MaxId
  /\ file \in [kind : {"absent", "empty", "garbage", "cursor"}, marks : Marks]
  /\ file.kind # "cursor" => file.marks = NoMarks
  /\ pc \in {"idle", "refused", "list", "walk", "open", "fill"}
  /\ seen \in Marks
  /\ todo \subseteq Domain
  /\ domain \in Domain \union {NoDomain}
  /\ domain = NoDomain <=> pc # "walk"
  /\ entries \subseteq Id
  /\ new_max \in 0..MaxId
  /\ inventory \subseteq Entry /\ failed \subseteq Entry /\ fresh \subseteq Entry
  /\ forgotten \subseteq Entry /\ again \subseteq Entry
  /\ faults \in 0..MaxFaults

Init ==
  /\ log = [d \in Domain |-> {}]
  /\ top = 0
  /\ file = Without("absent")
  /\ pc = "idle"
  /\ seen = NoMarks
  /\ todo = {}
  /\ domain = NoDomain
  /\ entries = {}
  /\ new_max = 0
  /\ inventory = {} /\ failed = {} /\ fresh = {} /\ forgotten = {} /\ again = {}
  /\ faults = 0

(* The process ends, and with it what it held.                             *)
Exit ==
  /\ pc' = "idle"
  /\ seen' = NoMarks
  /\ todo' = {}
  /\ domain' = NoDomain
  /\ entries' = {}
  /\ new_max' = 0
  /\ fresh' = {}

Fault == faults < MaxFaults /\ faults' = faults + 1

(* External: a certificate is logged, under one or more of the domains.    *)
Logged ==
  /\ top < MaxId
  /\ top' = top + 1
  /\ \E S \in SUBSET Domain \ {{}} :
       log' = [d \in Domain |-> IF d \in S THEN log[d] \union {top'} ELSE log[d]]
  /\ UNCHANGED <<file, pc, run, inventory, failed, ghosts, faults>>

(* Cursor::load: no file and an empty one are a scan from the start, one   *)
(* that does not parse ends the run.                                       *)
Load ==
  /\ pc \in {"idle", "refused"}
  /\ \/ /\ file.kind = "garbage"
        /\ pc' = "refused"
        /\ UNCHANGED <<seen, todo>>
     \/ /\ file.kind # "garbage"
        /\ pc' = "list"
        /\ seen' = file.marks
        /\ todo' = Domain
  /\ UNCHANGED <<log, top, file, domain, entries, new_max, inventory, failed,
                 ghosts, faults>>

List ==
  /\ pc = "list"
  /\ \E d \in todo :
       /\ todo' = todo \ {d}
       /\ domain' = d
       /\ entries' = log[d]
       /\ new_max' = seen[d]
  /\ pc' = "walk"
  /\ UNCHANGED <<log, top, file, seen, inventory, failed, ghosts, faults>>

(* A domain whose list fails is skipped and keeps its mark.                *)
ListFailed ==
  /\ pc = "list"
  /\ Fault
  /\ \E d \in todo : todo' = todo \ {d}
  /\ UNCHANGED <<log, top, file, pc, seen, domain, entries, new_max, inventory,
                 failed, ghosts>>

(* The entries are walked in the order of their ids.                       *)
Walk(id) ==
  /\ pc = "walk"
  /\ entries # {} /\ id = Min(entries)
  /\ entries' = entries \ {id}
  /\ UNCHANGED <<log, top, file, pc, seen, todo, domain>>

(* Mutant of Above: one entry too many is taken to be known.               *)
AboveNext(id) == id > seen[domain] + 1

Above(id) == id > seen[domain]

Below(id) ==
  /\ Walk(id) /\ ~Above(id)
  /\ UNCHANGED <<new_max, inventory, failed, ghosts, faults>>

(* The certificate is fetched and parsed and the collector has its event.  *)
Shipped(id) ==
  /\ Walk(id) /\ Above(id)
  /\ inventory' = inventory \union {<<domain, id>>}
  /\ again' = IF <<domain, id>> \in inventory
              THEN again \union {<<domain, id>>} ELSE again
  /\ fresh' = fresh \union {<<domain, id>>}
  /\ new_max' = Max({new_max, id})
  /\ UNCHANGED <<failed, forgotten, faults>>

(* The event is not built, is refused, or is lost on its way: Sink::send   *)
(* logs it and the scan goes on as if it had been sent.                    *)
Unsent(id) ==
  /\ Walk(id) /\ Above(id) /\ Fault
  /\ failed' = failed \union {<<domain, id>>}
  /\ new_max' = Max({new_max, id})
  /\ UNCHANGED <<inventory, ghosts>>

(* Mutant of FetchFailed: an entry that cannot be fetched ends the domain. *)
FetchFailedStopping(id) ==
  /\ pc = "walk" /\ entries # {} /\ id = Min(entries) /\ Above(id) /\ Fault
  /\ failed' = failed \union {<<domain, id>>}
  /\ new_max' = Max(entries)
  /\ entries' = {}
  /\ UNCHANGED <<log, top, file, pc, seen, todo, domain, inventory, ghosts>>

(* The fetch fails, or what it returns is no certificate.                  *)
FetchFailed(id) ==
  /\ Walk(id) /\ Above(id) /\ Fault
  /\ failed' = failed \union {<<domain, id>>}
  /\ UNCHANGED <<new_max, inventory, ghosts>>

(* Mutant of EndDomain: the mark is kept only when it is the first.        *)
EndDomainFirstOnly ==
  /\ pc = "walk" /\ entries = {}
  /\ seen' = [seen EXCEPT ![domain] = IF @ = 0 THEN new_max ELSE @]
  /\ domain' = NoDomain
  /\ new_max' = 0
  /\ pc' = "list"
  /\ UNCHANGED <<log, top, file, todo, entries, inventory, failed, ghosts, faults>>

EndDomain ==
  /\ pc = "walk" /\ entries = {}
  /\ seen' = [seen EXCEPT ![domain] = new_max]
  /\ domain' = NoDomain
  /\ new_max' = 0
  /\ pc' = "list"
  /\ UNCHANGED <<log, top, file, todo, entries, inventory, failed, ghosts, faults>>

EndDomains ==
  /\ pc = "list" /\ todo = {}
  /\ pc' = "open"
  /\ UNCHANGED <<log, top, file, run, inventory, failed, ghosts, faults>>

(* Cursor::save: fs::write empties the file and then fills it.             *)
SaveOpen ==
  /\ pc = "open"
  /\ pc' = "fill"
  /\ file' = Without("empty")
  /\ UNCHANGED <<log, top, run, inventory, failed, ghosts, faults>>

SaveFill ==
  /\ pc = "fill"
  /\ file' = Holding(seen)
  /\ Exit
  /\ UNCHANGED <<log, top, inventory, failed, forgotten, again, faults>>

(* The process dies, or its write fails: what the run held is gone, and    *)
(* what the file held is too if it was being written, in part or whole.    *)
Crash ==
  /\ pc \notin {"idle", "refused"}
  /\ Fault
  /\ \/ /\ pc # "fill"
        /\ forgotten' = forgotten \union fresh
        /\ UNCHANGED file
     \/ /\ pc = "fill"
        /\ file' \in {Without("empty"), Without("garbage")}
        /\ forgotten' = inventory
  /\ Exit
  /\ UNCHANGED <<log, top, inventory, failed, again>>

Scan ==
  \/ Load \/ List \/ EndDomain \/ EndDomains \/ SaveOpen \/ SaveFill
  \/ \E id \in entries : Below(id) \/ Shipped(id)

Next ==
  \/ Logged
  \/ Scan
  \/ ListFailed
  \/ \E id \in entries : Unsent(id) \/ FetchFailed(id)
  \/ Crash

(* Runs are started for ever, and a run goes on until it ends or dies.     *)
Spec == Init /\ [][Next]_vars /\ WF_vars(Scan)

-----------------------------------------------------------------------------
(* No entry is passed over unseen: one at or below the mark of its domain, *)
(* in the file, in the running scan or in the walk, has its event at the   *)
(* collector or its fetch or event failed.  What is logged while a scan    *)
(* runs is not lost to it (ct.rs, "only fetches entries with id >          *)
(* max_id_seen").                                                          *)
PassedOverOnlyIfFailed ==
  \A d \in Domain : \A id \in log[d] :
    \/ <<d, id>> \in inventory \union failed
    \/ /\ id > seen[d] \/ pc \in {"idle", "refused"}
       /\ id > file.marks[d]
       /\ d = domain => id > new_max

(* An entry is sent a second time only when the run that had sent it ended *)
(* without keeping its cursor, or the file was destroyed (ct.rs, the       *)
(* cursor is written once, at the end).                                    *)
RepeatedOnlyIfForgotten == again \subseteq forgotten

(* Every logged certificate reaches the collector in the end, but for one  *)
(* whose fetch or event failed, and unless a broken write left a cursor    *)
(* file that no run can read (ct.rs, ct_scan).                             *)
LoggedIsShipped ==
  \A e \in Entry :
    e[2] \in log[e[1]] ~> (e \in inventory \union failed \/ file.kind = "garbage")

=============================================================================
