------------------------------ MODULE Settings ------------------------------
(***************************************************************************)
(* What a request may set for a client: its AWG parameters, which take     *)
(* part in everything that happens to the server later (Params), and its   *)
(* routing policy, which concerns nobody else (Routing): policies are      *)
(* looked at one at a time, each in a state of its own.                    *)
(***************************************************************************)
EXTENDS Params, Routing

CONSTANTS
  Policies,   \* the routing objects requests send
  NoPolicy

ASSUME PoliciesAssumption == Policies \subseteq Routings

VARIABLE policy   \* the policy that is looked at: the request, and what is stored

settings == <<policy, vars>>

SettingsInit ==
  /\ Init
  /\ policy \in {NoPolicy} \cup {[asked |-> r, stored |-> NormalizeRouting(r)] : r \in Policies}

\* The request is answered.
Answer == policy # NoPolicy /\ policy' = NoPolicy /\ UNCHANGED vars

SettingsNext == \/ policy = NoPolicy /\ Next /\ UNCHANGED policy
                \/ Answer

SettingsSpec == SettingsInit /\ [][SettingsNext]_settings
-----------------------------------------------------------------------------
Accepted == policy # NoPolicy /\ policy.stored # InvalidRouting
Rendered == routingAllowedIPs(policy.stored).v4

\* A policy that was accepted goes on working: a restart or another update accepts
\* what is stored and stores it as it is, also after masking and with repetitions
\* removed, and every configuration that is asked for later can be rendered, as the
\* computed AllowedIPs are not empty and within the limit.
PolicyStaysUsable ==
  Accepted => NormalizeRouting(policy.stored) = policy.stored /\ Rendered # <<>>

\* The line AllowedIPs starts with the VPN network, excluded or not; the addresses
\* of the part after it are those that are allowed and not excluded, none more and
\* none less: with ranges that touch, overlap, repeat, end at the last address or
\* reach over several of the ranges they are cut from.
RoutesExactly == Accepted /\ Rendered # <<>> => Union(Rendered) = Wanted(policy.asked)

\* Computed AllowedIPs, after the VPN network, are as few as possible, sorted, and
\* none comes twice.
RoutesMinimal ==
  Accepted /\ policy.asked.excluded # <<>> =>
    LET v4 == Rendered
    IN /\ ToSet(v4) = CanonicalBlocks(Wanted(policy.asked))
       /\ \A i \in 2..Len(v4) : v4[i - 1].addr < v4[i].addr
=============================================================================
