----------------------------- MODULE MCSettings -----------------------------
(***************************************************************************)
(* Instance of Settings for TLC.                                           *)
(***************************************************************************)
EXTENDS Settings

None == <<<<>>, <<>>, <<>>, <<>>>>

\* One client tries everything, the other shares an interface with it or has a
\* header in the way.
Requests ==
  [c1 |-> {Empty}
     \cup {[Empty EXCEPT !.j = j] : j \in {<<1, 0, 0>>, <<0, 3, 0>>}}
     \cup {[Empty EXCEPT !.s = s] : s \in {<<0, 3, 0, 0>>, <<0, 0, 1, 0>>, <<5, 0, 0, 0>>}}
     \cup {[Empty EXCEPT !.h = h] : h \in {[None EXCEPT ![3] = <<2, 2>>],
                                           [None EXCEPT ![1] = <<10, 11>>],
                                           [None EXCEPT ![1] = <<5, 4>>]}}
     \cup {[Empty EXCEPT !.timing = Span(0, 1), !.toggle = "on"],
           [Empty EXCEPT !.timing = Off, !.keepalive = Span(1, 1)],
           [Empty EXCEPT !.keepalive = Scalar(1), !.j = <<1, 2, 3>>, !.cps = "x"],
           [Empty EXCEPT !.cps = "bad"],
           [Empty EXCEPT !.set = {"mode", "servers"}, !.mode = "custom",
                         !.servers = <<"a", "b", "a">>],
           [Empty EXCEPT !.set = {"dns", "mode"}, !.mode = "system"],
           [Empty EXCEPT !.set = {"servers"}]},
   c2 |-> {Empty, [Empty EXCEPT !.h = [None EXCEPT ![1] = <<2, 2>>]]}]

\* Junk on, junk off with a size that stays, and one that starts no server.
First == [j |-> <<1, 1, 2>>, s3 |-> 0, s4 |-> 0, timing |-> Span(0, 1), toggle |-> "on",
          keepalive |-> Span(1, 2), cps |-> ""]
Configurations ==
  {First,
   [First EXCEPT !.j = <<0, 3, 0>>, !.s3 = 2, !.s4 = 1, !.timing = Scalar(1),
                 !.toggle = "off", !.keepalive = Scalar(0), !.cps = "x"],
   [First EXCEPT !.j = <<1, 3, 3>>]}

TwoWide == [i \in 1..4 |-> [min |-> 2 * i, max |-> 2 * i + 2]]
OneDefault ==
  {[ver \in Versions |->
      IF ver = "2.0" THEN [Empty EXCEPT !.h = [i \in 1..4 |-> <<2 * i, 2 * i + 1>>], !.s = <<2, 2, 0, 0>>]
                     ELSE [Empty EXCEPT !.h = [i \in 1..4 |-> <<2 * i + 1, 2 * i + 1>>], !.s = <<3, 2, 2, 1>>]]}
TwoOrThree == [lo |-> 2, hi |-> 3]
Two == [lo |-> 2, hi |-> 2]
LimitS == <<4, 4, 3, 2>>
LimitJ == <<3, 3, 3>>

\* Lists: every block alone, every two blocks, three single addresses with the
\* first or the last one, all in one order as the code sorts them; and texts that
\* are not masked, come twice after masking, or do not parse.
Blocks == {t \in Texts : Valid(t) /\ Masked(t) = t}
Address(a) == [addr |-> a, bits |-> Width]
Half(a) == [addr |-> a, bits |-> 1]
Lists ==
  {<<>>} \cup {<<t>> : t \in Blocks}
  \cup {<<t, u>> : <<t, u>> \in {x \in Blocks \X Blocks : x[1].addr <= x[2].addr}}
  \cup {<<Address(a), Address(b), Address(c)>> :
          <<a, b, c>> \in {x \in Addresses \X Addresses \X Addresses :
                             x[1] < x[2] /\ x[2] < x[3] /\ (x[1] = 0 \/ x[3] = PowerOfTwo[Width] - 1)}}
  \cup {<<Half(1)>>, <<Half(0), Half(1)>>, <<Half(2), Half(5), Half(1)>>,
        <<[addr |-> 0, bits |-> Width + 1]>>, [i \in 1..4 |-> Address(i)]}

RoutingRequests ==
  [mode: {"split"}, allowed: Lists, excluded: Lists]
  \cup [mode: {"bypass", "full", "other"}, allowed: {<<>>, <<Everything>>}, excluded: Lists]
=============================================================================
