----------------------------- MODULE ApiAccess -----------------------------
(***************************************************************************)
(* API keys (server/apikeys/service.ts), the /v1 plumbing with its         *)
(* idempotency records (server/api/http.ts, server/idempotency.ts) and the *)
(* console page that shows a new secret once.  A request is checked, looks *)
(* its Idempotency-Key up, runs the route's handler and stores the         *)
(* response, one statement at a time; requests overlap, fail and die.      *)
(***************************************************************************)
EXTENDS Naturals, NoValue
CONSTANTS
  Key, Hook,     \* API keys and webhook endpoints created, with a secret each
  Team,          \* organisations
  Request,       \* executions of /v1 requests
  IdemKey,       \* values of the Idempotency-Key header
  Body,          \* request bodies
  RouteUsed,     \* the routes requested in this instance (a bound)
  Grant          \* the sets of scopes granted in this instance (a bound)

Secret == Key \cup Hook

VARIABLES
  apiKeys,       \* rows of api_keys, or None
  hooks,         \* the team of each webhook endpoint, or None
  flash,         \* a new secret: "unknown", "minted", its row's api_key_id, or "gone"
  views,         \* history: how often a page showed a secret to a team
  records,       \* rows of idempotency_keys, or None
  tokens,        \* capture tokens (one in each body) spent by a handler
  requests       \* where each request is

apiVars == <<apiKeys, hooks, flash, views, records, tokens, requests>>

-----------------------------------------------------------------------------
\* What each route asks for, and whether its handler spends the capture token in the body.
PostCaptureSession == [scope |-> "verification:create", spends |-> FALSE, keyed |-> TRUE]
PostEnrolment == [scope |-> "enrolment:create", spends |-> TRUE, keyed |-> TRUE]
PostVerification == [scope |-> "verification:create", spends |-> TRUE, keyed |-> TRUE]
PostWithdraw == [scope |-> "consent:manage", spends |-> FALSE, keyed |-> TRUE]
GetVerification == [scope |-> "verification:read", spends |-> FALSE, keyed |-> FALSE]

Routes == [sessions |-> PostCaptureSession, enrolments |-> PostEnrolment,
           verifications |-> PostVerification, withdraw |-> PostWithdraw, read |-> GetVerification]
API_SCOPES == {Routes[r].scope : r \in DOMAIN Routes} \cup {"webhook:manage"}

ASSUME RouteAssumption == RouteUsed \subseteq DOMAIN Routes /\ Grant \subseteq SUBSET API_SCOPES

KeyRow == [team : Team, scopes : SUBSET API_SCOPES, live : BOOLEAN]
Response == Request \cup {"conflict", "error"}
Record == [body : Body, response : Request]
NotSent == [pc |-> "idle"]
InFlight == [pc : {"lookup", "run", "store", "done"}, key : Key, route : RouteUsed,
             idem : IdemKey \cup {None}, body : Body, found : Record \cup {None},
             answer : Response \cup {None}]

\* Ids of api_keys and of webhook_endpoints are different values, and none is a stage of a flash.
ASSUME SecretAssumption == Key \cap Hook = {} /\ Secret \cap {"unknown", "minted", "gone"} = {}
ASSUME NoneIsNoApiRow == None \notin KeyRow \cup Team \cup Record \cup IdemKey

ApiTypeOK ==
  /\ apiKeys \in [Key -> KeyRow \cup {None}]
  /\ hooks \in [Hook -> Team \cup {None}]
  /\ flash \in [Secret -> {"unknown", "minted", "gone"} \cup Key]
  /\ views \in [Secret \X Team -> Nat]
  /\ records \in [Key \X RouteUsed \X IdemKey -> Record \cup {None}]
  /\ tokens \subseteq Body
  /\ requests \in [Request -> InFlight \cup {NotSent}]

ApiInit ==
  /\ apiKeys = [k \in Key |-> None]
  /\ hooks = [w \in Hook |-> None]
  /\ flash = [s \in Secret |-> "unknown"]
  /\ views = [st \in Secret \X Team |-> 0]
  /\ records = [kri \in Key \X RouteUsed \X IdemKey |-> None]
  /\ tokens = {}
  /\ requests = [q \in Request |-> NotSent]

-----------------------------------------------------------------------------
\* Keys.  Whoever creates or revokes one holds the permission (Tenancy models that check).
CreateApiKey(k, team, scopes) ==
  /\ apiKeys[k] = None /\ scopes # {}
  /\ apiKeys' = [apiKeys EXCEPT ![k] = [team |-> team, scopes |-> scopes, live |-> TRUE]]
  /\ flash' = [flash EXCEPT ![k] = "minted"]
  /\ UNCHANGED <<hooks, views, records, tokens, requests>>

\* Revoked by somebody of its organisation, or past its expires_at.
RevokeApiKey(k) ==
  /\ apiKeys[k] # None /\ apiKeys[k].live
  /\ apiKeys' = [apiKeys EXCEPT ![k].live = FALSE]
  /\ UNCHANGED <<hooks, flash, views, records, tokens, requests>>

\* actionCreateKey: the flash row is a second INSERT, which may never happen.
FlashKey(k) ==
  /\ flash[k] = "minted"
  /\ flash' = [flash EXCEPT ![k] = k]
  /\ UNCHANGED <<apiKeys, hooks, views, records, tokens, requests>>

CreateWebhookEndpoint(w, team) ==
  /\ hooks[w] = None
  /\ hooks' = [hooks EXCEPT ![w] = team]
  /\ flash' = [flash EXCEPT ![w] = "minted"]
  /\ UNCHANGED <<apiKeys, views, records, tokens, requests>>

KeysOf(team) == {k \in Key : apiKeys[k] # None /\ apiKeys[k].team = team}

\* Mutant: without a key of the organisation the row has no api_key_id.
FlashHookAlone(w) ==
  /\ flash[w] = "minted"
  /\ \/ \E k \in KeysOf(hooks[w]) : flash' = [flash EXCEPT ![w] = k]
     \/ KeysOf(hooks[w]) = {} /\ flash' = [flash EXCEPT ![w] = None]
  /\ UNCHANGED <<apiKeys, hooks, views, records, tokens, requests>>

\* Mutant: the row hangs on whatever key is found first.
FlashHookOnAnyKey(w) ==
  /\ flash[w] = "minted"
  /\ \E k \in Key : apiKeys[k] # None /\ flash' = [flash EXCEPT ![w] = k]
  /\ UNCHANGED <<apiKeys, hooks, views, records, tokens, requests>>

\* actionCreateWebhook hangs the row on some key of the organisation; without one the INSERT
\* fails, the error is dropped and nobody ever sees the secret.
FlashHook(w) ==
  /\ flash[w] = "minted"
  /\ \/ \E k \in KeysOf(hooks[w]) : flash' = [flash EXCEPT ![w] = k]
     \/ KeysOf(hooks[w]) = {} /\ flash' = [flash EXCEPT ![w] = "gone"]
  /\ UNCHANGED <<apiKeys, hooks, views, records, tokens, requests>>

\* The projects page of a team: whoever opens it next burns and shows what is waiting.
Waiting(team) == {s \in Secret : flash[s] \in KeysOf(team)}
ShowProjects(team) ==
  /\ Waiting(team) # {}
  /\ flash' = [s \in Secret |-> IF s \in Waiting(team) THEN "gone" ELSE flash[s]]
  /\ views' = [st \in Secret \X Team |->
                 IF st[1] \in Waiting(team) /\ st[2] = team THEN views[st] + 1 ELSE views[st]]
  /\ UNCHANGED <<apiKeys, hooks, records, tokens, requests>>

-----------------------------------------------------------------------------
\* authenticateApiKey: a live key with the route's scope.
Authenticates(k, r) == apiKeys[k] # None /\ apiKeys[k].live /\ Routes[r].scope \in apiKeys[k].scopes

\* withApiKey.  (found is a history variable: the record there when the request came in.)
Receive(q, k, r, i, b) ==
  /\ requests[q] = NotSent
  /\ Authenticates(k, r)
  /\ i # None => Routes[r].keyed
  /\ requests' = [requests EXCEPT ![q] =
       [pc |-> IF i = None THEN "run" ELSE "lookup", key |-> k, route |-> r, idem |-> i, body |-> b,
        found |-> IF i = None THEN None ELSE records[<<k, r, i>>], answer |-> None]]
  /\ UNCHANGED <<apiKeys, hooks, flash, views, records, tokens>>

Answers(q, answer) == requests' = [requests EXCEPT ![q].pc = "done", ![q].answer = answer]
RecordOf(q) == records[<<requests[q].key, requests[q].route, requests[q].idem>>]

\* Mutant: the request_hash is not compared.
LookupAnyBody(q) ==
  LET row == RecordOf(q) IN
  /\ requests[q].pc = "lookup"
  /\ \/ row = None /\ requests' = [requests EXCEPT ![q].pc = "run"]
     \/ row # None /\ Answers(q, row.response)
  /\ UNCHANGED <<apiKeys, hooks, flash, views, records, tokens>>

Lookup(q) ==
  LET row == RecordOf(q) IN
  /\ requests[q].pc = "lookup"
  /\ \/ row = None /\ requests' = [requests EXCEPT ![q].pc = "run"]
     \/ row # None /\ row.body = requests[q].body /\ Answers(q, row.response)
     \/ row # None /\ row.body # requests[q].body /\ Answers(q, "conflict")
  /\ UNCHANGED <<apiKeys, hooks, flash, views, records, tokens>>

\* A handler that throws is answered with an error, and no record is left of it.
RunHandler(q) ==
  LET spends == Routes[requests[q].route].spends
      b == requests[q].body
  IN /\ requests[q].pc = "run"
     /\ \/ /\ spends => b \notin tokens
           /\ tokens' = IF spends THEN tokens \cup {b} ELSE tokens
           /\ IF requests[q].idem = None THEN Answers(q, q)
              ELSE requests' = [requests EXCEPT ![q].pc = "store"]
        \/ /\ tokens' \in (IF spends THEN {tokens, tokens \cup {b}} ELSE {tokens})
           /\ Answers(q, "error")
     /\ UNCHANGED <<apiKeys, hooks, flash, views, records>>

\* ON CONFLICT DO NOTHING: of overlapping requests the first record stays.
StoreResponse(q) ==
  LET slot == <<requests[q].key, requests[q].route, requests[q].idem>> IN
  /\ requests[q].pc = "store"
  /\ records' = [records EXCEPT ![slot] =
                   IF @ = None THEN [body |-> requests[q].body, response |-> q] ELSE @]
  /\ Answers(q, q)
  /\ UNCHANGED <<apiKeys, hooks, flash, views, tokens>>

\* retention.purge drops what is seven days old, and with it what a retry could have found.
PurgeRecords(k, r, i) ==
  /\ records[<<k, r, i>>] # None
  /\ records' = [records EXCEPT ![<<k, r, i>>] = None]
  /\ requests' = [q \in Request |->
       IF requests[q].pc \in {"lookup", "run", "store"} /\ <<requests[q].key, requests[q].route, requests[q].idem>> = <<k, r, i>>
       THEN [requests[q] EXCEPT !.found = None] ELSE requests[q]]
  /\ UNCHANGED <<apiKeys, hooks, flash, views, tokens>>

-----------------------------------------------------------------------------
RequestStep(q) ==
  \/ Lookup(q) \/ RunHandler(q) \/ StoreResponse(q)
  \/ \E k \in Key, r \in RouteUsed, i \in IdemKey \cup {None}, b \in Body : Receive(q, k, r, i, b)

KeyStep(k) ==
  \/ FlashKey(k) \/ RevokeApiKey(k)
  \/ \E team \in Team, scopes \in Grant : CreateApiKey(k, team, scopes)

ApiNext ==
  \/ \E q \in Request : RequestStep(q)
  \/ \E k \in Key : KeyStep(k)
  \/ \E w \in Hook : FlashHook(w) \/ \E team \in Team : CreateWebhookEndpoint(w, team)
  \/ \E team \in Team : ShowProjects(team)
  \/ \E k \in Key, r \in RouteUsed, i \in IdemKey : PurgeRecords(k, r, i)

ApiSpec == ApiInit /\ [][ApiNext]_apiVars

-----------------------------------------------------------------------------
\* Idempotency.  A retry that finds its key recorded when it comes in is answered from that very
\* record, or refused when its body differs, whatever overlapping requests run and store
\* meanwhile; and a record is the answer one request of that API key, route and body was given.
RetriesAreReplayed ==
  /\ \A q \in Request :
       requests[q].pc = "done" /\ requests[q].found # None =>
         requests[q].answer = IF requests[q].found.body = requests[q].body
                              THEN requests[q].found.response ELSE "conflict"
  /\ \A k \in Key, r \in RouteUsed, i \in IdemKey : records[<<k, r, i>>] # None =>
       LET first == requests[records[<<k, r, i>>].response] IN
       /\ first.pc = "done" /\ first.answer = records[<<k, r, i>>].response
       /\ <<first.key, first.route, first.idem, first.body>> = <<k, r, i, records[<<k, r, i>>].body>>

\* "It will not be shown again": the secret of a key or webhook endpoint is on at most one page,
\* a page of the organisation it was made for, although its row hangs on any key of that
\* organisation, several pages are opened and webhook rows are read with key rows.
SecretsShownOnce ==
  \A s \in Secret, team \in Team : views[<<s, team>>] # 0 =>
    /\ views[<<s, team>>] = 1
    /\ team = IF s \in Key THEN apiKeys[s].team ELSE hooks[s]
=============================================================================
