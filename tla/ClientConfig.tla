---------------------------- MODULE ClientConfig ----------------------------
(***************************************************************************)
(* Client::from_env: the configuration of a client from the environment    *)
(* (ClientConfig::from_env in src/src/client.rs, OAuthConfig::from_env in  *)
(* src/src/oauth.rs), and the client that from_config makes of it.         *)
(*                                                                         *)
(* What a variable is set to is abstracted to whether the code can use it. *)
(* What became of a variable is read off the sources of each setting of    *)
(* the client: the variables it was made from, { } for a default.          *)
(***************************************************************************)
(***************************************************************************)
(* CA is ZEEBE_CA_CERTIFICATE_PATH, ID and SECRET are ZEEBE_CLIENT_ID and  *)
(* ZEEBE_CLIENT_SECRET, URL and TIMEOUT are ZEEBE_AUTHORIZATION_SERVER_URL *)
(* and ZEEBE_AUTH_REQUEST_TIMEOUT.                                         *)
(***************************************************************************)
EndpointVar == {"ADDRESS", "HOST", "PORT"}
CredentialVar == {"ID", "SECRET"}
AuthVar == CredentialVar \cup {"AUDIENCE", "URL", "TIMEOUT"}
Var == {"CA"} \cup EndpointVar \cup AuthVar

(* "bad": a file that cannot be read or is no certificate, a part of an    *)
(* address that is no URI, a URL that does not parse, no number.  Any      *)
(* string will do as a credential or an audience.                          *)
Value(v) ==
  {"unset", "good"} \cup (IF v \in CredentialVar \cup {"AUDIENCE"} THEN {} ELSE {"bad"})

VARIABLES
  env,      \* the environment of the process
  client    \* what from_env returned: None, an error, or the client

configVars == <<env, client>>

IsSet(v) == env[v] # "unset"
IsBad(v) == env[v] = "bad"
SetAmong(V) == {v \in V : IsSet(v)}

(* A Client: for each of its settings the variables it was made from;      *)
(* `auth' is { } for a client that sends no token.                         *)
None == [kind |-> "none", endpoint |-> {}, tls |-> {}, auth |-> {}]
Failed(kind) == [None EXCEPT !.kind = kind]
Made(endpoint, tls, auth) ==
  [kind |-> "client", endpoint |-> endpoint, tls |-> tls, auth |-> auth]

ConfigInit ==
  /\ env = [v \in Var |-> "unset"]
  /\ client = None

-----------------------------------------------------------------------------
(* The address: HOST and PORT, with a default for one of them, else        *)
(* ADDRESS, else the default.                                              *)
address ==
  IF IsSet("HOST") \/ IsSet("PORT") THEN SetAmong({"HOST", "PORT"})
                                    ELSE SetAmong({"ADDRESS"})

(* Mutants of should_use_env_config and CredentialMissing: && for ||; a    *)
(* missing credential is taken for the empty string.                       *)
UseEnvConfigIfBoth == IsSet("ID") /\ IsSet("SECRET")
NeverMissing == FALSE

should_use_env_config == IsSet("ID") \/ IsSet("SECRET")

CredentialMissing == ~IsSet("ID") \/ ~IsSet("SECRET")

(* A TIMEOUT that is no number is taken for the default.                   *)
AuthSources == {v \in SetAmong(AuthVar) : v = "TIMEOUT" => ~IsBad(v)}

(* Channel::from_shared *)
EndpointIsUri == \A v \in address : ~IsBad(v)

(***************************************************************************)
(* from_env, then from_config.  The certificate file, the credentials, the *)
(* endpoint and the certificate itself are errors; only then is            *)
(* AuthInterceptor::init reached, which unwraps the URL.                   *)
(***************************************************************************)
from_env ==
  IF IsBad("CA") \/ (should_use_env_config /\ CredentialMissing) \/ ~EndpointIsUri
    THEN Failed("error")
  ELSE IF should_use_env_config /\ IsBad("URL")
    THEN Failed("panic")
  ELSE Made(address, SetAmong({"CA"}), IF should_use_env_config THEN AuthSources ELSE {})

(* Before it creates a client, the process, or whoever starts it, sets     *)
(* variables, in any order.                                                *)
SetVariable(v) ==
  /\ client = None
  /\ \E x \in Value(v) : env' = [env EXCEPT ![v] = x]
  /\ UNCHANGED client

CreateClient ==
  /\ client = None
  /\ client' = from_env
  /\ UNCHANGED env

ConfigNext == (\E v \in Var : SetVariable(v)) \/ CreateClient

ConfigSpec == ConfigInit /\ [][ConfigNext]_configVars

-----------------------------------------------------------------------------
Sources == client.endpoint \cup client.tls \cup client.auth

(* The variables that a client leaves unused although they are set, and    *)
(* why: HOST or PORT comes before ADDRESS, the settings of a login need    *)
(* credentials, and a TIMEOUT must be a number.                            *)
Overridden ==
  {v \in {"ADDRESS"} : IsSet("HOST") \/ IsSet("PORT")}
  \cup {v \in AuthVar \ CredentialVar : \A c \in CredentialVar : ~IsSet(c)}
  \cup {v \in {"TIMEOUT"} : IsBad(v)}

(* No setting gets lost: whatever the environment asks for, a certificate, *)
(* an endpoint, credentials, the client has, or there is no client.  In    *)
(* particular credentials of which a half is missing never make a client   *)
(* that sends no token.                                                    *)
NoSettingLost ==
  client.kind = "client" => \A v \in Var : IsSet(v) => v \in Sources \cup Overridden

(* A client is made of usable settings only, whatever combination of       *)
(* variables is set, and if it logs in then with both credentials.         *)
ClientIsUsable ==
  client.kind = "client" =>
    /\ \A v \in Sources : IsSet(v) /\ ~IsBad(v)
    /\ client.auth # {} => CredentialVar \subseteq client.auth

(* The inductive invariant: once there is a client, the environment it was *)
(* made from stays as it was.                                              *)
ConfigInv ==
  /\ env \in [Var -> {"unset", "good", "bad"}]
  /\ \A v \in Var : env[v] \in Value(v)
  /\ client \in {None, from_env}
=============================================================================
