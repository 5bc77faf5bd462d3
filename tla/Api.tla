--------------------------------- MODULE Api ---------------------------------
(***************************************************************************)
(* A call from the router to its handler: the global JwtAuthGuard, the      *)
(* guards of the controller and the validation of the body, each after an   *)
(* await in which an operator may ban the caller.                           *)
(***************************************************************************)
EXTENDS Routes, Handlers

VARIABLES
    standing,     \* the status of the customer and of the partner who call
    adminSecret   \* ADMIN_SECRET of this deployment, which may be missing

apiVars == <<standing, adminSecret>>

Realms == {"customer", "partner"}

(* A token of either realm, one that has expired or is forged, or none. *)
Bearers == Realms \cup {"expired", "none"}

ApiInit ==
    /\ standing = [realm \in Realms |-> "ACTIVE"]
    /\ adminSecret \in {"set", "unset"}

Marked(r, mark) == mark \in req[r].route.marks

-----------------------------------------------------------------------------
(* The router takes the first route that fits the verb and the path. *)

Fits(route, verb, path) ==
    /\ route.verb = verb
    /\ Len(route.path) = Len(path)
    /\ \A i \in DOMAIN path : route.path[i] \in {Id, path[i]}

Dispatch(verb, path) == SelectSeq(AppModule, LAMBDA route : Fits(route, verb, path))

(* The path a client makes for a route; ids are no words of a path. *)
Filled(path) == [i \in DOMAIN path |-> IF path[i] = Id THEN "cuid" ELSE path[i]]

Send(r) ==
    /\ \E wanted \in Range(AppModule) :
          LET found == Dispatch(wanted.verb, Filled(wanted.path))
          IN  \E bearer \in Bearers, header \in {"right", "wrong", "none"} :
                 Begin(r, "send", [at |-> "jwt", wanted |-> wanted, route |-> Head(found),
                                   bearer |-> bearer, header |-> header,
                                   user |-> "nobody", arrived |-> standing])
    /\ UNCHANGED apiVars

-----------------------------------------------------------------------------
(* Both strategies verify the one signature.  The customer's then looks the *)
(* subject up among the users, where no partner is; the cache of users in   *)
(* front of the table is a stub that has nothing.                           *)

JwtStrategy(bearer) == bearer = "customer" /\ standing.customer # "BANNED"

(* The partner's asks for the audience first. *)
KitchenJwtStrategy(bearer) == bearer = "partner" /\ standing.partner # "SUSPENDED"

Refuse(r) == End(r)

Admit(r, step, user) == Goto(r, [req[r] EXCEPT !.at = step, !.user = user])

(* An open route takes whoever it finds; one of the partner's realm is left *)
(* to the guard of that realm, if it has one.                               *)
JwtAuthGuard(r) ==
    /\ At(r, "jwt")
    /\ \/ Marked(r, "KitchenScope") /\ Continue(r, "guards")
       \/ /\ ~Marked(r, "KitchenScope")
          /\ JwtStrategy(req[r].bearer)
          /\ Admit(r, "guards", "customer")
       \/ /\ ~Marked(r, "KitchenScope")
          /\ ~JwtStrategy(req[r].bearer)
          /\ IF Marked(r, "Public") THEN Continue(r, "guards") ELSE Refuse(r)
    /\ UNCHANGED apiVars

KitchenAuthGuard(r) ==
    /\ At(r, "guards")
    /\ Marked(r, "KitchenAuthGuard")
    /\ \/ Marked(r, "Public") /\ Continue(r, "pipes")
       \/ ~Marked(r, "Public") /\ KitchenJwtStrategy(req[r].bearer) /\ Admit(r, "pipes", "partner")
       \/ ~Marked(r, "Public") /\ ~KitchenJwtStrategy(req[r].bearer) /\ Refuse(r)
    /\ UNCHANGED apiVars

(* Faulty: without a secret it lets everybody pass. *)
AdminSecretGuardOpen(r) ==
    /\ At(r, "guards")
    /\ Marked(r, "AdminSecretGuard")
    /\ IF adminSecret = "unset" \/ req[r].header = "right" THEN Continue(r, "pipes") ELSE Refuse(r)
    /\ UNCHANGED apiVars

(* It fails closed: without a secret there is nothing to be equal to. *)
AdminSecretGuard(r) ==
    /\ At(r, "guards")
    /\ Marked(r, "AdminSecretGuard")
    /\ IF adminSecret = "set" /\ req[r].header = "right" THEN Continue(r, "pipes") ELSE Refuse(r)
    /\ UNCHANGED apiVars

NoGuard(r) ==
    /\ At(r, "guards")
    /\ ~Marked(r, "KitchenAuthGuard") /\ ~Marked(r, "AdminSecretGuard")
    /\ Continue(r, "pipes")
    /\ UNCHANGED apiVars

(* The ValidationPipe: 400 for a body with a wrong or an unknown field. *)
Validate(r) ==
    /\ At(r, "pipes")
    /\ Continue(r, "handler") \/ Refuse(r)
    /\ UNCHANGED apiVars

(* The handler answers; what it does is in the modules of the services. *)
Answer(r) == At(r, "handler") /\ End(r) /\ UNCHANGED apiVars

(* Nothing in the code bans an account: operators write the column. *)
Ban ==
    /\ Instant("ban")
    /\ \E realm \in Realms :
          standing' = [standing EXCEPT ![realm] = IF realm = "customer" THEN "BANNED" ELSE "SUSPENDED"]
    /\ UNCHANGED adminSecret

ApiStep(r) ==
    Send(r) \/ JwtAuthGuard(r) \/ KitchenAuthGuard(r) \/ AdminSecretGuard(r) \/ NoGuard(r)
       \/ Validate(r) \/ Answer(r)

ApiNext == Ban \/ \E r \in Requests : ApiStep(r) \/ (Abort(r) /\ UNCHANGED apiVars)

ApiSpec == ApiInit /\ HandlersInit /\ [][ApiNext]_<<apiVars, handlerVars>>

-----------------------------------------------------------------------------
(* What the guards rely on in the table: no route stands in front of another, *)
(* and a path's realm has the marks of its guard and no mark of another's.   *)

SignsIn(path) == path[1] = "partner" /\ path[2] = "auth" /\ Last(path) # "logout"

PartnersOnly(marks) == "KitchenAuthGuard" \in marks /\ "Public" \notin marks

RoutesAssumption ==
    \A route \in Range(AppModule) :
        /\ Head(Dispatch(route.verb, Filled(route.path))) = route
        /\ route.path[1] = "partner" =>
              "KitchenScope" \in route.marks /\ (SignsIn(route.path) \/ PartnersOnly(route.marks))
        /\ PartnersOnly(route.marks) => route.path[1] = "partner"
        /\ route.path[1] = "customer" => route.marks \cap {"KitchenScope", "KitchenAuthGuard", "Public"} = {}
        /\ route.path[1] = "admin" => "AdminSecretGuard" \in route.marks
        /\ "AdminSecretGuard" \in route.marks => "KitchenAuthGuard" \notin route.marks

-----------------------------------------------------------------------------
(* A handler runs for the route its client meant (no other route stands in  *)
(* front of it), for a caller of the realm its path says and of no other,   *)
(* and for nobody who was banned before the call arrived: a route below     *)
(* /partner, or /customer, has a caller of that realm unless it is one of   *)
(* the sign-in routes, and one below /admin the secret of the deployment.   *)
HandlersKnowTheirCaller ==
    \A r \in Requests : At(r, "handler") =>
       LET call == req[r]
           path == call.route.path
       IN  /\ call.route = call.wanted
           /\ path[1] = "partner" /\ ~SignsIn(path) => call.user = "partner"
           /\ path[1] = "customer" => call.user = "customer"
           /\ path[1] = "admin" => adminSecret = "set" /\ call.header = "right"
           /\ call.user = "partner" => path[1] = "partner" /\ call.arrived.partner # "SUSPENDED"
           /\ call.user = "customer" => path[1] # "partner" /\ call.arrived.customer # "BANNED"

=============================================================================
