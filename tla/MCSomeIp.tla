------------------------------ MODULE MCSomeIp ------------------------------
(***************************************************************************)
(* Instance of SomeIp: two services, two event groups, two methods, and    *)
(* offers whose entries refer to the options of their message in every way *)
(* the parser tells apart.                                                 *)
(***************************************************************************)
EXTENDS SomeIp

EndpointOption(addr) == [type |-> "endpoint", addr |-> addr]
LoadBalancing == [type |-> "other", addr |-> "none"]

(* One server, two end points, in two runs of options that overlap; its      *)
(* minor version equals one of the event groups.                             *)
TwoRuns(g) ==
  SdMessage(<<Entry("offer", "s1", g, <<1, 2>>, <<0, 2>>)>>,
            <<EndpointOption("a"), EndpointOption("b"), LoadBalancing>>, FALSE)

(* Two services, one of them no longer offered, and the other's end points   *)
(* reach beyond the options.                                                 *)
Beyond ==
  SdMessage(<<Entry("stop", "s1", NoGroup, <<0, 1>>, <<0, 0>>),
              Entry("offer", "s2", NoGroup, <<0, 1>>, <<2, 1>>)>>,
            <<EndpointOption("c")>>, FALSE)

(* The one after the last option is referred to. *)
AfterLast ==
  SdMessage(<<Entry("offer", "s1", NoGroup, <<0, 2>>, <<0, 0>>)>>, <<EndpointOption("a")>>, FALSE)

(* An error, which is ignored whatever comes with it. *)
Erroneous ==
  SdMessage(<<Entry("offer", "s2", NoGroup, <<0, 1>>, <<0, 0>>)>>, <<EndpointOption("c")>>, TRUE)

MCOffers == {TwoRuns(g) : g \in Groups} \cup {Beyond, AfterLast, Erroneous}
MCPlain == [what |-> "plain"]
MCNoDatagram == [what |-> "none"]
MCSymmetry == Permutations(Groups) \cup Permutations(Methods)
=============================================================================
