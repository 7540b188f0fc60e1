------------------------------- MODULE NetGraph -------------------------------
(***************************************************************************)
(* The graph of nets of a config (src/src/rabbit_digger.rs build_entities, *)
(* BuildContext, update_net; the registries; RunningNet).  Nets are built  *)
(* depth first from the servers; a net given inline is moved to the config *)
(* under a generated name.  Then nets are replaced in place by update_net  *)
(* while a request walks from RunningNet to RunningNet.                    *)
(*                                                                         *)
(* A net of the config has a type and the NetRefs of its fields, in the    *)
(* order in which Config::visit meets them.  A RunningNet is its number in *)
(* objs.  A name is a sequence of tokens, split where it has a delimiter.  *)
(***************************************************************************)
EXTENDS CompactVecString, FiniteSets

CONSTANTS
    Configs,        \* configs to start with
    NetConfigs,     \* the nets of configs, inline ones included
    Fields,         \* the paths of a config's NetRefs, in the order of the visit
    Updates,        \* what a caller of update_net makes of a net's config
    MaxUpdates,     \* bound: calls of update_net
    MaxHops         \* bound: RunningNets a request passes

VARIABLES
    given,      \* the config that was given
    config,     \* its nets, flattened as the build goes on
    todo,       \* servers to be built
    stack,      \* get_net and build_server calls that have not returned
    cache,      \* net_cache, then nets: name to RunningNet
    objs,       \* the RunningNets with the net each one holds
    served,     \* server to the nets it got
    phase,      \* "build", "failed" or "running"
    updates,    \* calls of update_net so far
    req         \* a request on its way

buildVars == <<given, config, todo, stack, cache, objs, served, phase>>
graphVars == <<buildVars, updates, req>>

-----------------------------------------------------------------------------
(* Configs.                                                                *)

NoName == <<>>
Named(n) == [name |-> n, inner |-> <<>>]
Inline(net) == [name |-> NoName, inner |-> <<net>>]

\* What the registry holds: a type that is not there, the placeholder's among
\* them, is not loaded; Builder::build may refuse a config ("broken").
Registered(t) == t \in {"loaded", "broken"}
Placeholder == [type |-> "circular reference", refs |-> <<>>]

DefaultNets == {<<"noop">>, <<"blackhole">>, <<"local">>}
init_default_net(net) ==
    [n \in DOMAIN net \cup DefaultNets |->
       IF n \in DOMAIN net THEN net[n] ELSE [type |-> "loaded", refs |-> <<>>]]

\* The path of the i-th field is that of the VisitorContext.
GeneratedName(prefix, i) == join(extend(from_iter(prefix), <<Fields[i]>>))

\* A NetRef holds a name or a net.  No path of a NetRef ends with that of another
\* one.  No net of a config has the name or the type that the build gives to nets
\* of its own: net/... or server/..., and the placeholder's.
Names == Seq(STRING) \ {NoName}
NetRefs == [name : Names, inner : {<<>>}] \cup {Inline(net) : net \in NetConfigs}
ASSUME GraphAssumption ==
    /\ Fields \in Seq(Seq(STRING))
    /\ \A i, j \in DOMAIN Fields : IsSuffix(Fields[i], Fields[j]) => i = j
    /\ NetConfigs \subseteq [type : STRING \ {Placeholder.type}, refs : Seq(NetRefs)]
    /\ \A net \in NetConfigs : Len(net.refs) <= Len(Fields)
    /\ \A c \in Configs :
         /\ \A n \in DOMAIN c.net :
              n \in Names /\ c.net[n] \in NetConfigs /\ (Len(n) > 1 => n[1] \notin {"net", "server"})
         /\ c.server \in Seq([name : Names, cfg : NetConfigs])
         /\ \A i, j \in DOMAIN c.server : c.server[i].name = c.server[j].name => i = j
    /\ Updates \subseteq NetConfigs

Frame(kind, name, cfg) ==
    [kind |-> kind, name |-> name, cfg |-> cfg, i |-> 1, deps |-> <<>>]
NoRequest == [on |-> 0, via |-> {}, list |-> EmptyStrings, path |-> <<>>]

GraphInit ==
    /\ given \in Configs
    /\ config = init_default_net(given.net)
    /\ todo = given.server
    /\ stack = <<>>
    /\ cache = <<>>
    /\ objs = <<>>
    /\ served = <<>>
    /\ phase = "build"
    /\ updates = 0
    /\ req = NoRequest

-----------------------------------------------------------------------------
(* build_entities.                                                         *)

Top == Last(stack)
Building == phase = "build" /\ stack # <<>>
Visiting == Building /\ Top.i <= Len(Top.cfg.refs)
Visited == Building /\ Top.i > Len(Top.cfg.refs)

Fail ==
    /\ phase' = "failed"
    /\ UNCHANGED <<given, todo, stack, cache, objs, served, updates, req>>

\* build_server: the type is looked up and the config's NetRefs are visited.
BuildServer ==
    /\ phase = "build" /\ stack = <<>> /\ todo # <<>>
    /\ IF Registered(Head(todo).cfg.type)
         THEN /\ stack' = <<Frame("server", Head(todo).name, Head(todo).cfg)>>
              /\ UNCHANGED <<given, config, todo, cache, objs, served, phase,
                             updates, req>>
         ELSE Fail /\ UNCHANGED config

\* get_net: the name of the net the NetRef stands for, and the config after a
\* net given inline has been inserted under its generated name.
RefName == LET ref == Top.cfg.refs[Top.i] IN
    IF ref.name # NoName THEN ref.name
    ELSE GeneratedName(<<<<Top.kind>>, Top.name>>, Top.i)
RefConfig == LET ref == Top.cfg.refs[Top.i] IN
    IF ref.name # NoName THEN config
    ELSE [n \in DOMAIN config \cup {RefName} |->
            IF n = RefName THEN ref.inner[1] ELSE config[n]]

\* The NetRef of the current field holds the name and the net, and the visit
\* goes on to the next field.
Advance(frame, name, id) ==
    [frame EXCEPT !.cfg.refs[frame.i] = Named(name), !.deps = Append(@, id),
                  !.i = @ + 1]

RefCached ==
    /\ Visiting /\ RefName \in DOMAIN cache
    /\ config' = RefConfig
    /\ stack' = Append(Front(stack), Advance(Top, RefName, cache[RefName]))
    /\ UNCHANGED <<given, todo, cache, objs, served, phase, updates, req>>

RefMissing ==
    /\ Visiting /\ RefName \notin DOMAIN cache /\ RefName \notin DOMAIN RefConfig
    /\ config' = RefConfig
    /\ Fail

\* A bug for the checks: the config stays in place while its net is built.
RefBuildInPlace ==
    /\ Visiting /\ RefName \in DOMAIN RefConfig \ DOMAIN cache
    /\ LET cfg == RefConfig[RefName] IN
         /\ config' = RefConfig
         /\ IF Registered(cfg.type)
              THEN /\ stack' = Append(stack, Frame("net", RefName, cfg))
                   /\ UNCHANGED <<given, todo, cache, objs, served, phase,
                                  updates, req>>
              ELSE Fail

\* The net's config is taken out, a placeholder left, and the net is built.
RefBuild ==
    /\ Visiting /\ RefName \in DOMAIN RefConfig \ DOMAIN cache
    /\ LET cfg == RefConfig[RefName] IN
         /\ config' = [RefConfig EXCEPT ![RefName] = Placeholder]
         /\ IF Registered(cfg.type)
              THEN /\ stack' = Append(stack, Frame("net", RefName, cfg))
                   /\ UNCHANGED <<given, todo, cache, objs, served, phase,
                                  updates, req>>
              ELSE Fail

\* The net is built and becomes a RunningNet; the config is put back with its
\* NetRefs by name, and the caller of get_net goes on with it.
FinishNet ==
    /\ Visited /\ Top.kind = "net" /\ Top.cfg.type # "broken"
    /\ LET id == Len(objs) + 1
           parent == stack[Len(stack) - 1] IN
         /\ objs' = Append(objs, [name |-> Top.name, deps |-> Top.deps])
         /\ config' = [config EXCEPT ![Top.name] = Top.cfg]
         /\ cache' = [n \in DOMAIN cache \cup {Top.name} |->
                        IF n = Top.name THEN id ELSE cache[n]]
         /\ stack' = Append(Front(Front(stack)), Advance(parent, Top.name, id))
    /\ UNCHANGED <<given, todo, served, phase, updates, req>>

FinishServer ==
    /\ Visited /\ Top.kind = "server" /\ Top.cfg.type # "broken"
    /\ served' = [n \in DOMAIN served \cup {Top.name} |->
                    IF n = Top.name THEN Top.deps ELSE served[n]]
    /\ todo' = Tail(todo)
    /\ stack' = <<>>
    /\ UNCHANGED <<given, config, cache, objs, phase, updates, req>>

BuildRefused == Visited /\ Top.cfg.type = "broken" /\ Fail /\ UNCHANGED config

BuildDone ==
    /\ phase = "build" /\ stack = <<>> /\ todo = <<>>
    /\ phase' = "running"
    /\ UNCHANGED <<given, config, todo, stack, cache, objs, served, updates, req>>

-----------------------------------------------------------------------------
(* update_net, under the write lock of the config.                         *)

\* The getter of update_net knows the running nets, by name only.
Gettable(new) ==
    \A i \in DOMAIN new.refs : new.refs[i].name \in DOMAIN cache
Updatable(n, new) ==
    n \in DOMAIN config \cap DOMAIN cache /\ new.type = "loaded" /\ Gettable(new)

\* A bug for the checks: the new config is stored before the net is built.
UpdateStoresFirst(n, new) ==
    /\ config' = [config EXCEPT ![n] = new]
    /\ objs' = IF Updatable(n, new)
                 THEN [objs EXCEPT ![cache[n]].deps =
                         [i \in DOMAIN new.refs |-> cache[new.refs[i].name]]]
                 ELSE objs
    /\ UNCHANGED cache

\* The net is built and takes the place of the old one in its RunningNet, then
\* the config is stored; on an error, and for a net that does not run, neither.
update_net(n, new) ==
    /\ IF Updatable(n, new)
         THEN /\ objs' = [objs EXCEPT ![cache[n]].deps =
                            [i \in DOMAIN new.refs |-> cache[new.refs[i].name]]]
              /\ config' = [config EXCEPT ![n] = new]
         ELSE UNCHANGED <<objs, config>>
    /\ UNCHANGED cache

UpdateNet ==
    /\ phase = "running" /\ updates < MaxUpdates
    /\ \E n \in DOMAIN config, new \in Updates : update_net(n, new)
    /\ updates' = updates + 1
    /\ UNCHANGED <<given, todo, stack, served, phase, req>>

-----------------------------------------------------------------------------
(* A request through the nets of a server.                                 *)

\* RunningServerNet: the server's name is appended and its net is called.
Connect ==
    /\ phase = "running" /\ req.path = <<>>
    /\ \E s \in DOMAIN served : \E i \in DOMAIN served[s] :
         req' = [on |-> served[s][i], via |-> {},
                 list |-> push(req.list, s), path |-> <<s>>]
    /\ UNCHANGED <<buildVars, updates>>

\* RunningNet: its name is appended and the net it holds now is called.
EnterNet ==
    /\ req.on # 0 /\ req.via = {} /\ Len(req.path) <= MaxHops
    /\ LET o == objs[req.on] IN
         req' = [on |-> IF o.deps = <<>> THEN 0 ELSE req.on, via |-> Range(o.deps),
                 list |-> push(req.list, o.name), path |-> Append(req.path, o.name)]
    /\ UNCHANGED <<buildVars, updates>>

\* The net, of which the call holds its own clone, calls one of its nets.
CallNet ==
    /\ req.via # {}
    /\ \E id \in req.via : req' = [req EXCEPT !.on = id, !.via = {}]
    /\ UNCHANGED <<buildVars, updates>>

-----------------------------------------------------------------------------
BuildEntities ==
    \/ BuildServer \/ RefCached \/ RefMissing \/ RefBuild \/ FinishNet
    \/ FinishServer \/ BuildRefused \/ BuildDone
Walk == EnterNet \/ CallNet

GraphNext == BuildEntities \/ UpdateNet \/ Connect \/ Walk
GraphSpec == GraphInit /\ [][GraphNext]_graphVars

-----------------------------------------------------------------------------
(* Properties.                                                             *)

\* What runs is what the stored config says: every net has one RunningNet under
\* its name, which holds the nets that the NetRefs of its config name, and no
\* placeholder is left behind, also after updates that fail.
ConfigDescribesNets ==
    phase = "running" =>
      /\ \A i \in 1..Len(objs) : cache[objs[i].name] = i
      /\ \A n \in DOMAIN cache :
           LET deps == objs[cache[n]].deps IN
           /\ DOMAIN deps = DOMAIN config[n].refs
           /\ \A i \in DOMAIN deps : config[n].refs[i] = Named(objs[deps[i]].name)
      /\ \A n \in DOMAIN config : config[n] # Placeholder

\* The net_list of a request's context lists the server and the nets it went
\* through, in order.
NetListIsPath == Strings(req.list) = req.path
=============================================================================
