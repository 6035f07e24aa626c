--------------------------- MODULE MCXraySettings ---------------------------
(* The shipped template and one with a proxy behind a balancer.               *)
EXTENDS XraySettings

Out(tag, dialer) == [tag |-> tag, dialer |-> dialer]
To(tag, lists) == [out |-> tag, bal |-> None, lists |-> lists]
Via(tag) == [out |-> None, bal |-> tag, lists |-> {"ip"}]
Bal(tag, strategy, picks, fallback) ==
  [tag |-> tag, strategy |-> strategy, picks |-> picks, fallback |-> fallback]

MCDefault ==
  [outbounds |-> <<Out("direct", None), Out("blocked", None)>>,
   rules |-> <<To("blocked", {"ip"})>>, balancers |-> <<>>,
   observatory |-> None, burst |-> None]

MCBalanced ==
  [outbounds |-> <<Out("direct", "proxy"), Out("proxy", None)>>,
   rules |-> <<To("direct", {"domain"}), Via("b1")>>,
   balancers |-> <<Bal("b1", "leastPing", {"proxy"}, "direct")>>,
   observatory |-> {"proxy"}, burst |-> None]

MCStored == {MCDefault, MCBalanced}

MCOutboundForms ==
  {Out("direct", None), Out("proxy", None), Out("spare", "direct")}
MCRuleForms == {To("proxy", {"ip"}), To("direct", {"domain"})}
MCBalancerForms ==
  {Bal("b1", "random", {"proxy"}, None), Bal("b2", "leastLoad", {"proxy"}, "direct"),
   Bal("b2", "leastPing", {"direct"}, None)}
=============================================================================
