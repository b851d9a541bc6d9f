----------------------------- MODULE SwiftReader ----------------------------
(***************************************************************************)
(* The Swift reader, lib/ior-swift.c: it finds a token and the URL of the  *)
(* object, from the environment or from a Keystone server, and opens an    *)
(* HTTP reader with the token as a request header; every other operation   *)
(* is passed on to that.  A handle may also be a plain HTTP reader.        *)
(***************************************************************************)
EXTENDS HttpReader, Keystone

VARIABLES
  swift,     \* is this a Swift handle?
  (* The environment, what the Keystone server answered and the token;     *)
  (* nothing reads them once the HTTP reader is open, so that they are     *)
  (* forgotten here.                                                       *)
  environ, response, token

auth == <<swift, environ, response, token>>
allVars == <<vars, auth>>

NoEnviron == [OS_AUTH_TOKEN |-> "unset", OS_STORAGE_URL |-> "unset", creds |-> FALSE]
NoResponse == [status |-> "failed", token |-> NULL, catalog |-> <<>>]

Forget ==
  environ' = NoEnviron /\ response' = NoResponse /\ token' = NoToken /\ swift' = swift
-----------------------------------------------------------------------------
SwiftInit ==
  \/ /\ Init
     /\ swift = FALSE /\ environ = NoEnviron
     /\ response = NoResponse /\ token = NoToken
  \/ /\ HandleInit /\ pc = "swift" /\ access = "refused"
     /\ swift = TRUE /\ environ \in Environs
     /\ response = NoResponse /\ token = NoToken

(* The URL cannot be parsed, or there is no memory for what is built.      *)
swift_open_fails ==
  /\ pc = "swift"
  /\ pc' = "closed" /\ Forget
  /\ UNCHANGED <<file, curl, call>>

(* process_hdrs: the server accepts a token fresh from Keystone; one from  *)
(* the environment may have expired.                                       *)
process_hdrs(t) == IF t.token = "keystone" THEN {"headers"} ELSE {"headers", "refused"}

(* The token and the URL are there: the HTTP reader is opened.             *)
OpenChild(t) ==
  /\ token' = t /\ access' \in process_hdrs(t)
  /\ pc' = "open"

(* get_token: from the environment, else with the credentials, if any.     *)
get_token ==
  /\ pc = "swift"
  /\ CASE keystone_env_parse_token(environ) ->
            OpenChild(ParsedToken(environ, NoToken)) /\ UNCHANGED <<environ, response, swift>>
       [] ~keystone_env_parse_token(environ) /\ keystone_env_parse_creds(environ) ->
            pc' = "keystone" /\ UNCHANGED <<auth, access>>
       [] OTHER -> pc' = "closed" /\ Forget /\ UNCHANGED access
  /\ UNCHANGED <<file, begun, sent, running, failures, call>>

keystone_authenticate ==
  /\ pc = "keystone"
  /\ \E r \in Responses :
       IF AuthenticateSucceeds(environ, r)
       THEN /\ OpenChild(Authenticated(environ, r))
            /\ response' = r /\ UNCHANGED <<environ, swift>>
       ELSE pc' = "closed" /\ Forget /\ UNCHANGED access
  /\ UNCHANGED <<file, begun, sent, running, failures, call>>

swift_open ==
  \/ swift_open_fails \/ get_token \/ keystone_authenticate
  \/ swift /\ (http_open \/ http_open_fails) /\ Forget
-----------------------------------------------------------------------------
swift_read(n) == swift /\ http_read(n) /\ UNCHANGED auth

swift_tell == http_tell

swift_seek(o, whence) == swift /\ http_seek(o, whence) /\ UNCHANGED auth

swift_close == swift /\ http_close /\ UNCHANGED auth

Inside == Reader /\ UNCHANGED auth

PlainHttp == ~swift /\ Next /\ UNCHANGED auth

SwiftNext ==
  \/ swift_open
  \/ \E n \in 0..MaxLen : swift_read(n)
  \/ \E o \in -FileSize..FileSize, whence \in {"SEEK_SET", "SEEK_CUR"} :
       swift_seek(o, whence)
  \/ swift_close
  \/ Inside
  \/ PlainHttp
  \/ Closed /\ UNCHANGED auth

SwiftSpec == SwiftInit /\ [][SwiftNext]_allVars /\ WF_allVars(Inside)
-----------------------------------------------------------------------------
(* url is that of a public endpoint of an object store in the catalog.     *)
IsStoreUrl(url, catalog) ==
  \E i \in DOMAIN catalog :
    /\ catalog[i].type = "object-store"
    /\ \E j \in DOMAIN catalog[i].endpoints :
         LET e == catalog[i].endpoints[j] IN e.interface = "public" /\ e.url = url

(* When the HTTP reader is opened, the object is asked for where           *)
(* OS_STORAGE_URL says or, if it says nothing, at a public endpoint of an  *)
(* object store in the catalog of Keystone's answer, and with the token of *)
(* that answer unless OS_AUTH_TOKEN replaces it; not without URL and token *)
(* (lib/swift-support/keystone.c:250, :500).  That is the first URL: where *)
(* the server redirects the request to, libcurl sends the token as well.   *)
OpensAtStore ==
  swift /\ pc = "open" =>
    /\ token.token # NULL /\ token.storage_url # NULL
    /\ environ.OS_AUTH_TOKEN # "set" => token.token = response.token
    /\ IF environ.OS_STORAGE_URL = "set" THEN token.storage_url = EnvUrl
       ELSE IsStoreUrl(token.storage_url, response.catalog)
=============================================================================
