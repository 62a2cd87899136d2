----------------------------- MODULE MCAdmission -----------------------------
(* A behaviour is one request judged on what it renders (AdmissionRender),  *)
(* or a history of writes under the other rules (AdmissionRules).           *)
EXTENDS AdmissionRender, AdmissionRules, TLC
CONSTANTS a, b, c, g, h

(* Requests: gateway g has the endpoints a and b, h has c.  Facts that cannot *)
(* matter are given once.                                                    *)

MCEndpointsOf == [x \in {g, h} |-> IF x = g THEN {a, b} ELSE {c}]

Invalid == [status |-> "invalid", policy |-> "sound", was |-> "good", now |-> "good"]
Fine    == [Invalid EXCEPT !.status = "unjudged"]
Missing == {[Fine EXCEPT !.policy = "missing", !.status = s] : s \in {"unjudged", "accepted"}}

\* The write of a policy changes no route, so it masks nothing new.
SameMask == {p \in Parts \X Parts : (p[1] \in {"masked", "hidden"}) = (p[2] \in {"masked", "hidden"})}

Eps(statuses, policies, parts) ==
  {[status |-> s, policy |-> p, was |-> x[1], now |-> x[2]] : s \in statuses, p \in policies, x \in parts}

\* A group can fail together only if two of it are rendered.
Togethers(es) == IF \A x \in DOMAIN es : es[x].status # "invalid" /\ es[x].policy # "missing"
                 THEN Both ELSE {[was |-> FALSE, now |-> FALSE]}

OnGateway(ces, roots, es) ==
  UNION {{[ce |-> x, root |-> r, together |-> t, ep |-> es2] :
            x \in ces, r \in roots, t \in Togethers(es2)} : es2 \in es}

Request(kind, create, uses) ==
  [kind |-> kind, create |-> create, same |-> FALSE, clash |-> "none", trusted |-> FALSE,
   gone |-> FALSE, drops |-> FALSE, alone |-> [was |-> TRUE, now |-> TRUE], uses |-> uses]

OK    == [was |-> TRUE, now |-> TRUE]
Never == [was |-> FALSE, now |-> FALSE]
Quiet == [ce |-> FALSE, root |-> OK, together |-> Never, ep |-> [x \in {a, b} |-> Fine]]

\* Over a root that passed, statuses do not matter; over one that failed, what
\* the entries were does not.
OverRoot(root, es) ==
  {Request("gateway", FALSE, (g :> u)) :
     u \in OnGateway({FALSE}, {root}, {(a :> x @@ b :> y) : x \in es, y \in es})}

GatewayUpdates ==
  OverRoot(OK, {Invalid} \cup Missing \cup Eps({"unjudged"}, {"sound", "failing"}, Parts \X Parts))
  \cup OverRoot([was |-> FALSE, now |-> TRUE],
         {Invalid} \cup Missing \cup Eps({"unjudged", "accepted"}, {"sound", "failing"}, {"good"} \X Parts))

GatewayOthers ==
  {[Request("gateway", c1, (g :> [Quiet EXCEPT !.root = r, !.ep[a].now = p])) EXCEPT !.same = s, !.clash = k] :
     c1 \in BOOLEAN, r \in Both, p \in {"good", "bad"}, s \in {FALSE}, k \in {"none", "new", "capped"}}
  \cup {[Request("gateway", FALSE, (g :> Quiet)) EXCEPT !.same = TRUE]}

PolicyEps == {Invalid, Fine} \cup {[Fine EXCEPT !.policy = "missing"]}
             \cup Eps({"unjudged"}, {"sound", "failing"}, SameMask)

OtherEps == {Invalid} \cup Eps({"unjudged"}, {"sound"},
              {<<"good", "good">>, <<"good", "bad">>, <<"bad", "bad">>, <<"masked", "hidden">>})

OnG == {[Quiet EXCEPT !.root = Never]}
       \cup OnGateway({FALSE}, {OK}, {(a :> x @@ b :> y) : x \in PolicyEps, y \in OtherEps})

OnH == {[ce |-> FALSE, root |-> OK, together |-> Never, ep |-> (c :> y)] : y \in OtherEps}
       \cup {[ce |-> x, root |-> IF x THEN OK ELSE Never, together |-> Never, ep |-> (c :> Fine)] : x \in BOOLEAN}

\* On a create what is compared with is the policy with no content.
PolicyWrites ==
  {[Request("policy", k[1], (g :> u @@ h :> v)) EXCEPT !.alone = k[2], !.drops = v.ce] :
     k \in {<<TRUE, [was |-> TRUE, now |-> x]>> : x \in BOOLEAN} \cup {<<FALSE, x>> : x \in Both},
     u \in OnG, v \in OnH}

EndpointWrites ==
  {[Request("endpoint", k, (h :> [ce |-> FALSE, root |-> [was |-> r, now |-> r], together |-> Never, ep |-> (c :> y)]))
      EXCEPT !.clash = x, !.trusted = t, !.gone = z] :
     k \in BOOLEAN, r \in BOOLEAN, x \in {"none", "new", "capped"}, t \in BOOLEAN, z \in BOOLEAN,
     y \in Eps({"unjudged"}, {"sound", "failing"}, {"good", "bad"} \X {"good", "bad"})}

MCRequests == GatewayUpdates \cup GatewayOthers \cup PolicyWrites \cup EndpointWrites

-----------------------------------------------------------------------------
(* Worlds: each edits one group of fields.                                 *)

Plain == [edition |-> "EE", extraConfig |-> "unset", redis |-> "unset", documentation |-> "unset",
          openapi |-> [enabled |-> FALSE, probe |-> "none", image |-> "default"],
          license |-> [ref |-> "none", external |-> "unset"],
          dragonfly |-> [enabled |-> FALSE, password |-> "none", run |-> NoRunAs],
          job |-> [enabled |-> FALSE, borrows |-> FALSE, variant |-> 1, run |-> NoRunAs]]

World(gws, eps, pols, acs, ws) ==
  [gateways |-> gws, stored |-> gws, endpoints |-> eps, policies |-> pols, sources |-> acs, writers |-> ws]

Someone == {{Get("s1")}, {Get("s2")}, {CreatePods, CreateES}, {}}

Editions ==
  UNION {{[Plain EXCEPT !.edition = x], [Plain EXCEPT !.edition = x, !.redis = y],
          [Plain EXCEPT !.edition = x, !.documentation = y], [Plain EXCEPT !.edition = x, !.extraConfig = y],
          [Plain EXCEPT !.edition = x, !.dragonfly.enabled = TRUE, !.redis = y],
          [Plain EXCEPT !.edition = x, !.openapi.enabled = TRUE, !.openapi.probe = IF y = "x" THEN "none" ELSE "fine"]} :
            x \in {"CE", "EE"}, y \in {"x", "y"}}

MCWorlds ==
  [edition |-> World(Editions, EndpointSpec, Policy, {}, {{}}),
   license |-> World({[Plain EXCEPT !.license = x] : x \in License}, {}, {}, {}, Someone),
   password |-> World({[Plain EXCEPT !.dragonfly = [enabled |-> x, password |-> y, run |-> NoRunAs]] : x \in BOOLEAN, y \in Names},
         {}, {}, {}, Someone),
   job |-> World({[Plain EXCEPT !.job = [enabled |-> x, borrows |-> y, variant |-> z, run |-> NoRunAs]] :
            x \in BOOLEAN, y \in BOOLEAN, z \in {1, 2}}, {}, {}, {}, Someone),
   source |-> World({Plain}, {}, {}, Source, Someone),
   jobRoot |-> World({[Plain EXCEPT !.job.enabled = x, !.job.run = y] : x \in BOOLEAN, y \in RunAs}, {}, {}, {}, {{}}),
   dragonflyRoot |-> World({[Plain EXCEPT !.dragonfly.enabled = x, !.dragonfly.run = y] : x \in BOOLEAN, y \in RunAs}, {}, {}, {}, {{}}),
   probe |-> World({[Plain EXCEPT !.openapi = x] : x \in OpenAPI}, {}, {}, {}, {{}}),
   none |-> World({}, {}, {}, {}, {})]

-----------------------------------------------------------------------------
NoRequest == [Request("gateway", FALSE, (g :> Quiet)) EXCEPT !.same = TRUE]

NoWrites ==
  /\ here = "none"
  /\ gw = None /\ ep = None /\ pol = None /\ ac = None
  /\ usedBy = [u \in Uses |-> {}] /\ kept = {}

Answered ==
  /\ req = NoRequest /\ pc = "end" /\ target = g /\ answer = "admit"
  /\ todo = {} /\ screen = [x \in {g} |-> "unseen"]
  /\ first = {} /\ rest = {} /\ scan = NoScan
  /\ causes = {} /\ stopped = FALSE

MCInit == (Init /\ NoWrites) \/ (InitRules /\ Answered)
MCNext == (Next /\ UNCHANGED rules) \/ (here # "none" /\ NextRules /\ UNCHANGED vars)
MCSpec == MCInit /\ [][MCNext]_<<vars, rules>>
=============================================================================
