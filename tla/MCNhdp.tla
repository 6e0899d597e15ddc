------------------------------- MODULE MCNhdp -------------------------------
(* HELLOs for the instances of Nhdp.  Router R1 has the addresses "a1"     *)
(* (heard on i1) and "a2" (heard on i2) and the originator "o1"; router R2 *)
(* is heard on i1 with address "a3".                                       *)
EXTENDS Nhdp

MCIfs == {"i1", "i2"}
Msg(i, src, locals, us, sym2, gone2, orig, vtime) ==
    [if |-> i, src |-> src, locals |-> locals, us |-> us, sym2 |-> sym2,
     gone2 |-> gone2, orig |-> orig, vtime |-> vtime]

R1Both == {<< <<"a1", "THIS">>, <<"a2", "OTHER">> >>}
R1Alone == {<< <<"a1", "THIS">> >>}

(* One router with two interfaces: it drops and adds "a2", says of us that *)
(* it heard us, lost us or does not know us, and "a9" is two hops away;    *)
(* one HELLO has no address of its interface.                              *)
StableHellos ==
    {Msg("i1", "a1", ls, us, {}, {}, "o1", v) :
       ls \in R1Both \cup R1Alone, us \in {"heard", "lost"}, v \in {1, 2}}
    \cup {Msg("i2", "a2", << <<"a2", "THIS">>, <<"a1", "OTHER">> >>, us, {}, {}, "o1", 1) :
       us \in {"none", "heard"}}
    \cup {Msg("i1", "a1", << <<"a1", "THIS">> >>, "heard", {"a9"}, {}, "o1", 1),
          Msg("i1", "a1", << <<"a1", "THIS">> >>, "none", {}, {"a9"}, "o1", 1),
          Msg("i1", "a1", <<>>, "heard", {}, {}, "o1", 1)}

(* The addresses of R1 and R2 get mixed up: "a3", which R2 also uses as its *)
(* originator, moves between them, and both claim that originator.         *)
MixedHellos ==
    {Msg("i1", "a1", << <<"a1", "THIS">>, <<"a3", "THIS">> >>, "heard", {}, {}, "o1", 1),
     Msg("i1", "a3", << <<"a3", "THIS">>, <<"a1", "OTHER">> >>, "lost", {}, {}, "unspec", 1),
     Msg("i1", "a3", << <<"a3", "THIS">> >>, "heard", {}, {}, "a3", 1)}

(* They are those of a router that keeps its addresses.                    *)
ASSUME StableAreSteady == Hellos = StableHellos => SteadyHellos

NoHellos == {}
NoIfs == {}
(* HELLOs that are dropped, one with the addresses of both routers.        *)
OneBad == {Msg("i1", "a1", << <<"a1", "THIS">> >>, "none", {}, {}, "o1", 1)}
BothBad == {Msg("i1", "a1", << <<"a1", "THIS">>, <<"a3", "THIS">> >>, "none", {}, {}, "o1", 1)}
OneIf == {"i1"}
=============================================================================
