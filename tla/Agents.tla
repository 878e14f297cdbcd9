------------------------------- MODULE Agents -------------------------------
(***************************************************************************)
(* The processes an agent binary can be: the observer of a capture, the    *)
(* tap of a live interface, or one of the inventory commands.  A process   *)
(* is one of them and shares nothing with the others but the collector, so *)
(* the components that do not run keep their first state.                  *)
(***************************************************************************)
EXTENDS LiveObserver, EbpfTap, Sweep

VARIABLE agent  (* what the command line asked for                           *)

agentVars == <<agent, liveVars, tapVars, sweepVars>>

(* The subcommands of main; what a component that does not run would start *)
(* with is of no account.                                                  *)
AgentsInit ==
  /\ agent \in {"live", "live_ebpf", "sweep"}
  /\ Init /\ TapInit /\ SweepInit
  /\ agent # "live" => ~dedup
  /\ agent # "sweep" => cmd = "host_scan"

Live(A) == agent = "live" /\ A /\ UNCHANGED <<agent, tapVars, sweepVars>>

LiveEbpf(A) == agent = "live_ebpf" /\ A /\ UNCHANGED <<agent, liveVars, sweepVars>>

OneShot(A) == agent = "sweep" /\ A /\ UNCHANGED <<agent, liveVars, tapVars>>

(* The tap has seen every frame and waits for more.                        *)
Quiet ==
  /\ agent = "live_ebpf"
  /\ arrived = DOMAIN Frame /\ reader = "wait" /\ ~ready
  /\ UNCHANGED agentVars

AgentsNext == Live(Next) \/ LiveEbpf(TapNext) \/ OneShot(SweepNext) \/ Quiet

(* The task of the tap is run whenever it can be, and the runtime polls    *)
(* for wakeups whenever it cannot: one thread, which does nothing else.    *)
AgentsFairness ==
  /\ WF_tapVars(agent = "live_ebpf" /\ TapLoop)
  /\ WF_tapVars(agent = "live_ebpf" /\ Driver)

AgentsSpec == AgentsInit /\ [][AgentsNext]_agentVars /\ AgentsFairness

=============================================================================
