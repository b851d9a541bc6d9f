------------------------------ MODULE Keystone ------------------------------
(***************************************************************************)
(* What the Swift reader takes from the environment and from the answer of *)
(* a Keystone server, lib/swift-support/keystone.c: a token and the URL of *)
(* the object store.                                                       *)
(*                                                                         *)
(* An environment variable is "unset", "empty" or "set".  The answer of    *)
(* the server is a record of the status, the token of the response header  *)
(* and the service catalog of the body: a sequence of services, each with  *)
(* a type and a sequence of endpoints [interface, url].                    *)
(***************************************************************************)
EXTENDS Integers, Sequences

CONSTANTS
  NULL,       \* a pointer that is not set; an empty string
  EnvUrl,     \* the value of OS_STORAGE_URL
  Catalogs    \* bound: the catalogs a server may answer with

IsSequence(s) == Len(s) \in Nat /\ DOMAIN s = 1..Len(s)

ASSUME KeystoneAssumption ==
  /\ NULL \notin {EnvUrl, "env", "keystone"}
  /\ \A c \in Catalogs :
       IsSequence(c) /\ \A i \in DOMAIN c : IsSequence(c[i].endpoints)

Variable == {"unset", "empty", "set"}
Environs == [OS_AUTH_TOKEN : Variable, OS_STORAGE_URL : Variable, creds : BOOLEAN]

(* A request that fails, another status than 201, a body that is not JSON  *)
(* of the expected form, or a 201 with or without the header.              *)
Responses ==
  {[status |-> "failed", token |-> NULL, catalog |-> <<>>],
   [status |-> "malformed", token |-> "keystone", catalog |-> <<>>]}
  \cup [status : {"created"}, token : {NULL, "keystone"}, catalog : Catalogs]

NoToken == [token |-> NULL, storage_url |-> NULL]
-----------------------------------------------------------------------------
(* GETENV: a variable that is set replaces what is there.                  *)
GetEnv(var, value, there) == IF var = "set" THEN value ELSE there

(* keystone_env_parse_token: what is set, even if the other one is not.    *)
ParsedToken(env, t) ==
  [token |-> GetEnv(env.OS_AUTH_TOKEN, "env", t.token),
   storage_url |-> GetEnv(env.OS_STORAGE_URL, EnvUrl, t.storage_url)]

keystone_env_parse_token(env) ==
  env.OS_AUTH_TOKEN = "set" /\ env.OS_STORAGE_URL = "set"

keystone_env_parse_creds(env) == env.creds

(* urlbuf after one more endpoint: a public one puts its url there.        *)
process_endpoint_entry(urlbuf, e) ==
  IF e.interface = "public" THEN e.url ELSE urlbuf

(* urlbuf after all endpoints of a service.                                *)
PublicUrl(endpoints) ==
  LET urlbuf[i \in 0..Len(endpoints)] ==
        IF i = 0 THEN NULL ELSE process_endpoint_entry(urlbuf[i - 1], endpoints[i])
  IN  urlbuf[Len(endpoints)]

(* storage_url after one more service: an object store sets it, if it is   *)
(* not set; one without a public endpoint is an error.                     *)
process_catalog_entry_anyType(r, s) ==
  IF ~r.ok THEN r
  ELSE IF PublicUrl(s.endpoints) = NULL THEN [ok |-> FALSE, url |-> r.url]
  ELSE IF r.url = NULL THEN [ok |-> TRUE, url |-> PublicUrl(s.endpoints)] ELSE r
process_catalog_entry(r, s) ==
  IF ~r.ok \/ s.type # "object-store" THEN r
  ELSE IF PublicUrl(s.endpoints) = NULL THEN [ok |-> FALSE, url |-> r.url]
  ELSE IF r.url = NULL THEN [ok |-> TRUE, url |-> PublicUrl(s.endpoints)] ELSE r

(* storage_url after all services of the catalog, and is there no error?   *)
process_json(url, catalog) ==
  LET after[i \in 0..Len(catalog)] ==
        IF i = 0 THEN [ok |-> TRUE, url |-> url]
        ELSE process_catalog_entry(after[i - 1], catalog[i])
  IN  after[Len(catalog)]

(* The body must be JSON, whatever number of tokens it takes.              *)
process_auth_response(url, r) ==
  IF r.status = "malformed" THEN [ok |-> FALSE, url |-> url]
  ELSE process_json(url, r.catalog)

(* The header callback stores the token of the response, if there is one.  *)
auth_header_cb(r) == [NoToken EXCEPT !.token = r.token]

(* What keystone_authenticate leaves in the token for answer r: that of    *)
(* the header; the environment may replace it and the URL; then the        *)
(* catalog is looked at.                                                   *)
Authenticated(env, r) ==
  LET t == ParsedToken(env, auth_header_cb(r))
  IN  [t EXCEPT !.storage_url = process_auth_response(t.storage_url, r).url]

(* Does it return 1?                                                       *)
AuthenticateSucceeds(env, r) ==
  /\ r.status # "failed"
  /\ process_auth_response(ParsedToken(env, NoToken).storage_url, r).ok
  /\ Authenticated(env, r).token # NULL
  /\ Authenticated(env, r).storage_url # NULL
=============================================================================
