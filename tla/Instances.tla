------------------------------ MODULE Instances ------------------------------
(***************************************************************************)
(* The containers of customer-service bots and the paths that lead to      *)
(* them: app/services/provisioner.py as the dashboard                      *)
(* (app/admin/routes.py) and the administrator's tools call it.  A bot of  *)
(* a corp that has a container moves in there (co-hosting), any other gets *)
(* a container, a port, a configuration of nginx and a route for its       *)
(* callbacks in Redis.  One process does one operation at a time; it, a    *)
(* command and Redis can fail in between.                                  *)
(***************************************************************************)
EXTENDS FiniteSetsExt, Naturals

CONSTANTS
    Bots,       \* tenants on the wecom_kf platform, with their open_kfid
    OneCorp,    \* those with the same corp and secret; any other has its own
    MaxPort,    \* the ports are 1 .. MaxPort
    MaxInstanceMishaps  \* bound: failed or hanging commands, failed writes, deaths, exits

ASSUME InstancesConstants ==
    OneCorp \subseteq Bots /\ MaxPort \in Nat \ {0} /\ MaxInstanceMishaps \in Nat

VARIABLES
    ports,   \* _registry and registry.json: the port of every instance, 0: not registered
    homes,   \* instances/<bot>/: the bots of tenants.json and the port of the compose file
    boxes,   \* the port for which the container of a bot was made, 0: there is none
    alive,   \* the bots whose container runs
    confs,   \* the port in the bot's file in the directory of nginx, 0: no file
    nginx,   \* what nginx has loaded of them
    routes,  \* kf_dispatch: the port to which the callbacks of a bot are forwarded, 0: no key
    deed,    \* the operation under way
    instanceMishaps,
    promised, \* history: bots that provision has reported as running
    ghosts,   \* history: bots whose container existed without being registered
    loose     \* history: bots whose home and route came apart, see below

pathVars == <<confs, nginx, routes>>
boxVars == <<boxes, alive>>
instanceVars == <<ports, homes, boxVars, pathVars, deed, instanceMishaps, promised, ghosts, loose>>

Ports == 1 .. MaxPort

\* InstanceInfo.port = 0, which the listing gives to a container that publishes no
\* port and to a tenant it knows nothing else of.
PortUnknown == MaxPort + 1
PortNumbers == 0 .. PortUnknown
NoHome == [bots |-> {}, port |-> 0]
NoDeed == [at |-> "idle"]
Steps == {"up", "register", "route", "reload",            \* provision
          "hosted", "left",                               \* co-hosting
          "unroute", "down", "unconf", "remove"}          \* destroy_instance

InstancesTypeOK ==
    /\ {ports, boxes, confs, nginx, routes} \subseteq [Bots -> PortNumbers]
    /\ homes \in [Bots -> [bots: SUBSET Bots, port: PortNumbers]]
    /\ deed \in {NoDeed} \cup [at: Steps, bot: Bots, port: PortNumbers]
    /\ instanceMishaps \in 0 .. MaxInstanceMishaps
    /\ {alive, promised, ghosts, loose} \subseteq SUBSET Bots

Nowhere == [b \in Bots |-> 0]

InstancesInit ==
    /\ ports = Nowhere /\ boxes = Nowhere /\ confs = Nowhere /\ nginx = Nowhere
    /\ routes = Nowhere /\ homes = [b \in Bots |-> NoHome]
    /\ deed = NoDeed /\ instanceMishaps = 0
    /\ alive = {} /\ promised = {} /\ ghosts = {} /\ loose = {}

InstanceMishap ==
    instanceMishaps < MaxInstanceMishaps /\ instanceMishaps' = instanceMishaps + 1

-----------------------------------------------------------------------------
(* What the operations ask *)

Registered == {b \in Bots : ports[b] # 0}
Homes(b) == {h \in Bots : b \in homes[h].bots}

\* mutant: what no container runs on
UnusedNow == Ports \ {boxes[b] : b \in alive}

\* allocate_port: the least that no registered instance has.
Unused == Ports \ {ports[b] : b \in Bots}

\* _find_cohost_instance: those that have the bot's corp and secret.  Whoever
\* moves in later has, or inherits, the credentials of the first.
CoHosts(b) == {h \in Registered : homes[h].bots # {} /\ {b, h} \subseteq OneCorp}

\* Every file has a location /webhook/channel/ of its own, all are included in
\* one server block, and nginx refuses a location that is there twice: a reload
\* with two files fails and changes nothing.
Reloaded(files) ==
    IF Cardinality({b \in Bots : files[b] # 0}) <= 1 THEN files ELSE nginx

Then(step, b, p) == deed' = [at |-> step, bot |-> b, port |-> p]
DeedAt(step) == deed.at = step

-----------------------------------------------------------------------------
(* provision *)

\* No instance of its own yet and nobody to share with: directory, compose file
\* and nginx file are written before anything is started.
ProvisionFiles(b) ==
    /\ deed = NoDeed /\ b \notin Registered
    /\ CoHosts(b) = {} /\ Unused # {}
    /\ LET p == Min(Unused) IN
       /\ homes' = [homes EXCEPT ![b] = [bots |-> {b}, port |-> p]]
       /\ confs' = [confs EXCEPT ![b] = p]
       /\ Then("up", b, p)
    /\ loose' = loose \cup (homes[b].bots \ {b}) \cup (IF Homes(b) \subseteq {b} THEN {} ELSE {b})
    /\ UNCHANGED <<ports, boxVars, nginx, routes, instanceMishaps, promised, ghosts>>

Taken(p, b) == \E c \in alive \ {b} : boxes[c] = p

\* A container that is made for a port and starts, or exists and starts again.
MakeBox(b, p) == boxes' = [boxes EXCEPT ![b] = p]
StartBox(b) == alive' = alive \cup {b}
EndBox(b) == alive' = alive \ {b}

Up ==
    /\ DeedAt("up") /\ ~Taken(deed.port, deed.bot)
    /\ MakeBox(deed.bot, deed.port) /\ StartBox(deed.bot)
    /\ Then("register", deed.bot, deed.port)
    /\ UNCHANGED <<ports, homes, pathVars, instanceMishaps, promised, ghosts, loose>>

\* The image is not built (the old container stays as it is) or compose up fails,
\* as it does when another container has the port: the old one is gone, or the new
\* one is made and does not start.  Registered as an error.
UpFails ==
    /\ DeedAt("up")
    /\ IF Taken(deed.port, deed.bot) THEN UNCHANGED instanceMishaps ELSE InstanceMishap
    /\ \/ UNCHANGED boxVars
       \/ \E p \in {0, deed.port} : MakeBox(deed.bot, p) /\ EndBox(deed.bot)
    /\ ports' = [ports EXCEPT ![deed.bot] = deed.port]
    /\ deed' = NoDeed
    /\ loose' = loose \cup {deed.bot}
    /\ UNCHANGED <<homes, pathVars, promised, ghosts>>

\* subprocess.run's timeout is not caught: provision ends before it registers,
\* and docker may or may not have made the container, and started it.
UpTimesOut ==
    /\ DeedAt("up") /\ InstanceMishap
    /\ \/ UNCHANGED boxVars
       \/ MakeBox(deed.bot, deed.port) /\ EndBox(deed.bot)
       \/ ~Taken(deed.port, deed.bot) /\ MakeBox(deed.bot, deed.port) /\ StartBox(deed.bot)
    /\ ghosts' = ghosts \cup {deed.bot} /\ loose' = loose \cup {deed.bot}
    /\ deed' = NoDeed
    /\ UNCHANGED <<ports, homes, pathVars, promised>>

RegisterInstance ==
    /\ DeedAt("register")
    /\ ports' = [ports EXCEPT ![deed.bot] = deed.port]
    /\ Then("route", deed.bot, deed.port)
    /\ UNCHANGED <<homes, boxVars, pathVars, instanceMishaps, promised, ghosts, loose>>

\* _register_kf_dispatch or _unregister_kf_dispatch for the bot: SET or DEL, which
\* may fail without an exception.
RouteTo(p) ==
    \/ /\ routes' = [routes EXCEPT ![deed.bot] = p]
       /\ UNCHANGED <<instanceMishaps, loose>>
    \/ InstanceMishap /\ loose' = loose \cup {deed.bot} /\ UNCHANGED routes

SetRoute ==
    /\ DeedAt("route") /\ RouteTo(deed.port)
    /\ Then("reload", deed.bot, deed.port)
    /\ UNCHANGED <<ports, homes, boxVars, confs, nginx, promised, ghosts>>

\* A reload that fails is logged, as are health checks that fail: ok either way.
Reload ==
    /\ DeedAt("reload")
    /\ nginx' = Reloaded(confs)
    /\ promised' = promised \cup {deed.bot}
    /\ deed' = NoDeed
    /\ UNCHANGED <<ports, homes, boxVars, confs, routes, instanceMishaps, ghosts, loose>>

-----------------------------------------------------------------------------
(* Co-hosting *)

\* _cohost_tenant: found by provision, or chosen on the dashboard
\* (api_add_co_tenant), which does not ask whether the bot has a home already.
MoveIn(b, h) ==
    /\ deed = NoDeed
    /\ h \in Registered /\ homes[h].bots # {} /\ b \notin homes[h].bots
    /\ homes' = [homes EXCEPT ![h].bots = @ \cup {b}]
    /\ Then("hosted", b, ports[h])
    /\ loose' = IF Homes(b) = {} THEN loose ELSE loose \cup {b}
    /\ UNCHANGED <<ports, boxVars, pathVars, instanceMishaps, promised, ghosts>>

Cohost(b, h) == b \notin Registered /\ h \in CoHosts(b) /\ MoveIn(b, h)
AddCoTenant(b, h) == MoveIn(b, h)

\* docker (compose) restart: a container that ended runs again, if its port is free.
Restarts(h) ==
    IF boxes[h] # 0 /\ ~Taken(boxes[h], h) THEN StartBox(h) ELSE UNCHANGED alive

\* The route, to whatever port the host is registered with, and a restart of the
\* host.
MovedIn ==
    /\ DeedAt("hosted") /\ RouteTo(deed.port)
    /\ \E h \in Homes(deed.bot) : ports[h] = deed.port /\ Restarts(h)
    /\ deed' = NoDeed
    /\ UNCHANGED <<ports, homes, boxes, confs, nginx, promised, ghosts>>

RemoveCoTenant(b, h) ==
    /\ deed = NoDeed
    /\ h \in Registered /\ b # h /\ b \in homes[h].bots
    /\ homes' = [homes EXCEPT ![h].bots = @ \ {b}]
    /\ Then("left", b, ports[h])
    /\ UNCHANGED <<ports, boxVars, pathVars, instanceMishaps, promised, ghosts, loose>>

MovedOut ==
    /\ DeedAt("left") /\ RouteTo(0)
    /\ \E h \in Registered : ports[h] = deed.port /\ Restarts(h)
    /\ deed' = NoDeed
    /\ UNCHANGED <<ports, homes, boxes, confs, nginx, promised, ghosts>>

-----------------------------------------------------------------------------
(* destroy_instance, stop_instance and what happens around the operations *)

Destroy(h) ==
    /\ deed = NoDeed /\ h \in Registered
    /\ Then(IF homes[h] = NoHome THEN "down" ELSE "unroute", h, 0)
    /\ UNCHANGED <<ports, homes, boxVars, pathVars, instanceMishaps, promised, ghosts, loose>>

\* Only the first tenant of the file loses its route.
Unroute ==
    /\ DeedAt("unroute") /\ RouteTo(0)
    /\ Then("down", deed.bot, 0)
    /\ UNCHANGED <<ports, homes, boxVars, confs, nginx, promised, ghosts>>

\* compose down, whose failure (always, without the file) is not looked at.
Down ==
    /\ DeedAt("down")
    /\ \/ /\ IF homes[deed.bot] = NoHome
             THEN UNCHANGED boxVars
             ELSE MakeBox(deed.bot, 0) /\ EndBox(deed.bot)
          /\ UNCHANGED instanceMishaps
       \/ InstanceMishap /\ UNCHANGED boxVars
    /\ Then("unconf", deed.bot, 0)
    /\ UNCHANGED <<ports, homes, pathVars, promised, ghosts, loose>>

Unconf ==
    /\ DeedAt("unconf")
    /\ confs' = [confs EXCEPT ![deed.bot] = 0]
    /\ nginx' = IF confs[deed.bot] = 0 THEN nginx ELSE Reloaded(confs')
    /\ Then("remove", deed.bot, 0)
    /\ UNCHANGED <<ports, homes, boxVars, routes, instanceMishaps, promised, ghosts, loose>>

\* The directory and the entry of the registry go, with whoever lived there.
Remove ==
    /\ DeedAt("remove")
    /\ homes' = [homes EXCEPT ![deed.bot] = NoHome]
    /\ ports' = [ports EXCEPT ![deed.bot] = 0]
    /\ ghosts' = IF boxes[deed.bot] = 0 THEN ghosts ELSE ghosts \cup {deed.bot}
    /\ loose' = loose \cup (homes[deed.bot].bots \ {deed.bot})
    /\ promised' = promised \ {deed.bot}
    /\ deed' = NoDeed
    /\ UNCHANGED <<boxVars, pathVars, instanceMishaps>>

\* compose down where there is a compose file, else docker stop.
Stop(h) ==
    /\ deed = NoDeed /\ h \in Registered
    /\ EndBox(h)
    /\ boxes' = IF homes[h] = NoHome THEN boxes ELSE [boxes EXCEPT ![h] = 0]
    /\ promised' = promised \ {h}
    /\ UNCHANGED <<ports, homes, pathVars, deed, instanceMishaps, ghosts, loose>>

RestartInstance(h) ==
    /\ deed = NoDeed /\ h \in Registered
    /\ Restarts(h)
    /\ UNCHANGED <<ports, homes, boxes, pathVars, deed, instanceMishaps, promised, ghosts, loose>>

\* A container ends by itself, or is being started over and over.
BoxExits(h) ==
    /\ h \in alive /\ InstanceMishap /\ EndBox(h)
    /\ UNCHANGED <<ports, homes, boxes, pathVars, deed, promised, ghosts, loose>>

\* _try_docker_discover, when the instances are listed: docker ps -a names every
\* container, and one that is not registered is, with its port if it runs.
Discover ==
    /\ deed = NoDeed
    /\ \E b \in Bots : ports[b] = 0 /\ boxes[b] # 0
    /\ ports' = [b \in Bots |-> IF ports[b] # 0 \/ boxes[b] = 0 THEN ports[b]
                                ELSE IF b \in alive THEN boxes[b] ELSE PortUnknown]
    /\ UNCHANGED <<homes, boxVars, pathVars, deed, instanceMishaps, promised, ghosts, loose>>

\* _build_from_tenant_registry, in a process whose first docker ps failed: tenants
\* of its own registry and of the keys in Redis are instances from then on.  Which
\* of those with the same credentials depends on what is read of them.
DiscoverTenants ==
    /\ deed = NoDeed
    /\ \E new \in SUBSET {b \in Bots : ports[b] = 0} :
          ports' = [b \in Bots |-> IF b \in new THEN PortUnknown ELSE ports[b]]
    /\ UNCHANGED <<homes, boxVars, pathVars, deed, instanceMishaps, promised, ghosts, loose>>

\* The process dies within an operation.  registry.json is written in place: a
\* death during the write leaves a file that is not read again, and no instance.
InstancesDie ==
    /\ deed # NoDeed /\ InstanceMishap
    /\ \/ ports' = ports /\ loose' = loose \cup {deed.bot} \cup homes[deed.bot].bots
       \/ deed.at \in {"register", "remove"} /\ ports' = Nowhere /\ loose' = Bots
    /\ ghosts' = ghosts \cup {b \in Bots : boxes[b] # 0 /\ ports'[b] = 0}
    /\ deed' = NoDeed
    /\ UNCHANGED <<homes, boxVars, pathVars, promised>>

InstancesNext ==
    \/ \E b \in Bots : ProvisionFiles(b) \/ Destroy(b) \/ Stop(b) \/ RestartInstance(b) \/ BoxExits(b)
    \/ \E b, h \in Bots : Cohost(b, h) \/ AddCoTenant(b, h) \/ RemoveCoTenant(b, h)
    \/ Up \/ UpFails \/ UpTimesOut \/ RegisterInstance \/ SetRoute \/ Reload
    \/ MovedIn \/ MovedOut \/ Unroute \/ Down \/ Unconf \/ Remove
    \/ Discover \/ DiscoverTenants \/ InstancesDie

InstancesSpec == InstancesInit /\ [][InstancesNext]_instanceVars

-----------------------------------------------------------------------------
\* Two instances never have one port, unless a container of one of them existed
\* without being registered (provision ended before, or destroy_instance did not
\* look whether it was removed): its port is given away, and the listing brings
\* both in.  Instances that the listing registered with port 0 are not told apart.
PortsApart ==
    \A b, c \in Registered :
        b # c /\ ports[b] = ports[c] /\ ports[b] # PortUnknown => {b, c} \cap ghosts # {}

\* Between operations the route of a bot has the port with which the container is
\* registered whose tenants.json has the bot, and every such bot has a route.  The
\* port is 0, and the route leads nowhere, when the listing had registered the
\* container with port 0 before the bot moved in.  Left out are bots whose home was
\* destroyed with them in it (only the first tenant's route is deleted), that were
\* given a second home, and those a mishap hit half way.
RoutesLead ==
    deed = NoDeed => \A b \in Bots \ loose :
        /\ routes[b] # 0 => \E h \in Homes(b) : ports[h] = routes[b]
        /\ Homes(b) \cap Registered # {} => routes[b] # 0

\* What the registry, the directories and Redis say of each other
\* (provisioner.py:113-129, :331, :417, :1128, :1460).
InstancesSound == PortsApart /\ RoutesLead

\* An instance that was reported as running is behind nginx (provisioner.py:25,
\* "Nginx 反代路由").
BehindNginx == deed = NoDeed => \A b \in promised : nginx[b] = ports[b]
=============================================================================
