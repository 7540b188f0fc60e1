------------------------------ MODULE MCNetGraph ------------------------------
(***************************************************************************)
(* NetGraph over all configs with two nets and a server of the shapes      *)
(* below, and the reference definition of what can be built.               *)
(***************************************************************************)
EXTENDS NetGraph

A == <<"a">>
B == <<"b">>
Net(t, rs) == [type |-> t, refs |-> rs]
Local == Named(<<"local">>)

NameRefs == {Named(A), Named(B), Local}
InlineRefs == {Inline(Net("loaded", <<Local>>)), Inline(Net("loaded", <<Named(A)>>))}
Missing == Named(<<"missing">>)
Nets ==
    {Net("loaded", <<>>), Net("unloaded", <<>>), Net("broken", <<>>),
     Net("loaded", <<Missing>>)}
    \cup {Net("loaded", <<r>>) : r \in NameRefs \cup InlineRefs}
    \cup {Net("loaded", <<r, Named(B)>>) : r \in InlineRefs}

MCConfigs ==
    {[net |-> (A :> a @@ B :> b),
      server |-> <<[name |-> <<"s">>, cfg |-> Net("loaded", rs)]>>] :
        a \in Nets, b \in Nets,
        rs \in {<<Named(A)>>, <<Named(A), Local>>, <<Inline(Net("loaded", <<Named(B)>>)), Named(A)>>}}
MCFields == <<<<"list", "0">>, <<"list", "1">>, <<"net">>>>
MCUpdates ==
    {Net("loaded", <<Local>>), Net("loaded", <<Named(B)>>), Net("loaded", <<Named(A), Local>>),
     Net("broken", <<>>), Net("loaded", <<Missing>>), Net("loaded", <<Inline(Net("loaded", <<>>))>>)}
MCNetConfigs ==
    Nets \cup MCUpdates \cup {c.server[1].cfg : c \in MCConfigs}
    \cup {r.inner[1] : r \in InlineRefs \cup {Inline(Net("loaded", <<Named(B)>>))}}

-----------------------------------------------------------------------------
(* The reference: all nets that the servers lead to are there, can be      *)
(* built, and none leads back to itself.  Nets given inline are nodes of   *)
(* their own, named after their place.                                     *)

Place(n, i) == <<"place">> \o n \o Fields[i]
Target(n, cfg, i) ==
    IF cfg.refs[i].name # NoName THEN cfg.refs[i].name ELSE Place(n, i)
Owners == init_default_net(given.net)
Servers == Range(given.server)
InlineNets ==
    UNION {{<<Place(n, i), Owners[n].refs[i].inner[1]>> :
              i \in {j \in DOMAIN Owners[n].refs : Owners[n].refs[j].name = NoName}} :
           n \in DOMAIN Owners}
    \cup UNION {{<<Place(s.name, i), s.cfg.refs[i].inner[1]>> :
                   i \in {j \in DOMAIN s.cfg.refs : s.cfg.refs[j].name = NoName}} :
                s \in Servers}
AllNets == InlineNets \cup {<<n, Owners[n]>> : n \in DOMAIN Owners}
Leads == UNION {{<<p[1], Target(p[1], p[2], i)>> : i \in DOMAIN p[2].refs} : p \in AllNets}
Steps(R) == R \cup {<<e[1], f[2]>> : <<e, f>> \in {p \in R \X R : p[1][2] = p[2][1]}}
Closure == Steps(Steps(Steps(Leads)))
Roots == UNION {{Target(s.name, s.cfg, i) : i \in DOMAIN s.cfg.refs} : s \in Servers}
Reached == Roots \cup {e[2] : e \in {f \in Closure : f[1] \in Roots}}
Buildable ==
    /\ \A s \in Servers : s.cfg.type = "loaded"
    /\ \A n \in Reached :
         /\ \E p \in AllNets : p[1] = n /\ p[2].type = "loaded"
         /\ <<n, n>> \notin Closure

\* build_entities succeeds exactly on the configs whose servers lead only to
\* nets that exist, are of a loaded type, build, and are not circular; how the
\* nets are shared, nested and ordered makes no difference.  Its recursion never
\* comes back to a net that it is building, so it ends.
BuildDecides ==
    /\ \A i, j \in DOMAIN stack : stack[i].kind = stack[j].kind /\ stack[i].name = stack[j].name => i = j
    /\ phase = "running" => Buildable
    /\ phase = "failed" => ~Buildable
=============================================================================
