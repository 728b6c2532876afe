----------------------------- MODULE MCBackoffice -----------------------------
(***************************************************************************)
(* Three components that share no state, explored by one run: `part` says   *)
(* which of them a behaviour is of, and the others stay as they began.     *)
(* The bounds of each are in the constraint Calm.                          *)
(***************************************************************************)
EXTENDS RefreshTokens, LoginGate, LeadFunnel, TLC

VARIABLE part

partVars == <<part, tokenVars, gateVars, funnelVars>>

PartsInit ==
    /\ part \in {"tokens", "gate", "funnel"}
    /\ TokensInit /\ GateInit /\ FunnelInit

Only(p, others) == part = p /\ UNCHANGED <<part, others>>

PartsNext ==
    \/ Only("tokens", <<gateVars, funnelVars>>) /\ TokensNext
    \/ Only("gate", <<tokenVars, funnelVars>>) /\ GateNext
    \/ Only("funnel", <<tokenVars, gateVars>>) /\ FunnelNext
PartsSpec == PartsInit /\ [][PartsNext]_partVars

----------------------------------------------------------------------------
Busy(f) == Cardinality({x \in DOMAIN f : f[x].at # "idle"})

\* After two writers ran over one another, or a revocation failed, the properties
\* promise next to nothing.
CalmTokens == Orderly

NoNudging == \A k \in Ticks, l \in Leads : tick[k].at = "idle" /\ nudges[l] = 0 /\ ~lead[l].due
NoInbound ==
    inbound = {} /\ auto = {} /\ \A l \in Leads : Exists(l) => lead[l].recent
NoStage == stage = Nil /\ orders = 0

\* Of nudges, automatic leads and the stage, one at a time: they meet in the
\* status of a lead only.
CalmFunnel ==
    /\ upsets \subseteq {"reopened"}
    /\ Busy(tick) + Busy(writer) + Cardinality(inbound) <= 2
    /\ \/ NoStage /\ NoNudging
       \/ NoStage /\ NoInbound
       \/ NoNudging /\ NoInbound /\ Cardinality({l \in Leads : lead[l].status # "none"}) <= 1

Calm == CalmTokens /\ CalmFunnel

\* The sets of the three parts share their model values.
Symmetry == Permutations(Tabs) \cup Permutations(Calls) \cup Permutations(Families) \cup Permutations(Tokens)
=============================================================================
