--------------------------- MODULE MCProjectPolicy ---------------------------
(***************************************************************************)
(* ProjectPolicy with a project file of an auditor, which leaves out every *)
(* field it may, one of a worker that sets every field, and one that sets  *)
(* every field to something else, without the proxy; and PolicyChecks,     *)
(* whose every input is that of a state in which nothing happens.          *)
(***************************************************************************)
EXTENDS ProjectPolicy, PolicyChecks

Everything(v) == [f \in Fields |-> {v}]
MCDomains == {<<"x">>, <<"*">>, <<"*", "x">>}
Auditor ==
  [[f \in Fields |-> {}] EXCEPT !["role"] = {"auditor"}, !["resources_hard"] = {"small"},
                              !["firewall_extra_domains"] = {"api.anthropic.com"}]
MCYamls ==
  {Auditor,
   [Everything("x") EXCEPT !["egress_proxy"] = {"enabled"}, !["role"] = {},
                           ![Reach] = {<<"x">>, <<"*">>}],
   [Everything("y") EXCEPT !["egress_proxy"] = {"disabled"}, !["role"] = {"auditor"},
                           ![Reach] = {<<"*", "x">>}]}

MCInit ==
  /\ Init
  /\ \/ input = NoCheck
     \/ yaml = Auditor /\ Inputs
MCNext == input = NoCheck /\ Next /\ UNCHANGED input
MCSpec == MCInit /\ [][MCNext]_<<vars, input>>
=============================================================================
