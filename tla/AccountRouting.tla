--------------------------- MODULE AccountRouting ---------------------------
(***************************************************************************)
(* Who a call acts as.  A host is configured with AWS accounts, sends them *)
(* along with every call (toProtoCredentials in                            *)
(* src/internal/transport/grpc/client_mappers.go, toDomainCredentials in   *)
(* mappers.go), and the provider routes the call to one of them by the     *)
(* scope id that an earlier answer named (src/internal/aws/account_router.go). *)
(* The provider keeps no account: between the answer and the call the host *)
(* may rename, reorder, add, drop and rotate what it is configured with.   *)
(*                                                                         *)
(* A text that is not given is None, the empty one.  A secret goes with    *)
(* its key, and role_session_name and source_identity go the way of        *)
(* external_id.                                                            *)
(***************************************************************************)
EXTENDS Naturals, FiniteSets

CONSTANTS
  Texts, None,  \* what a field may hold; nothing
  Accounts,     \* what the host may be configured with
  Endpoints,    \* scope.endpoint and scope.endpoint_region
  MaxAccounts   \* bound: accounts configured at once

Credentials == [chain: BOOLEAN, profile: Texts, key: Texts, token: Texts,
                role: Texts, ext: Texts]

ASSUME NoneAssumption == None \in Texts
ASSUME AccountAssumption == Accounts \subseteq [name: Texts, creds: Credentials]

VARIABLES
  accounts,   \* the accounts the host is configured with
  form,       \* "single": the one account travels as credentials.AWS
  endpoint,
  validated,  \* what ValidateConnection said of them
  offer,      \* an offering or instance the host was told of: its scope id, and
              \* as history the configuration and the identity behind it
  call        \* history: the last StartInstance or StopInstance for that offer
accountVars == <<accounts, form, endpoint, validated, offer, call>>

NoCall == [scope |-> << >>, as |-> << >>]
NoOffer == [scope |-> << >>]
Refused == [scope |-> << >>, as |-> <<"refused">>]

-----------------------------------------------------------------------------
(* toProtoCredentials: the method is told from what is filled in.            *)
Method(c) == IF c.chain THEN "default" ELSE IF c.role # None THEN "role" ELSE "static"

(* A variant of ToProtoAccount that leaves the assume-role options out.      *)
ToProtoAccountBare(c) ==
  [chain |-> FALSE,
   profile |-> IF c.chain THEN c.profile ELSE None,
   key |-> IF c.chain THEN None ELSE c.key,
   token |-> IF c.chain THEN None ELSE c.token,
   role |-> IF c.chain THEN None ELSE c.role,
   ext |-> None]

(* One of several accounts: what travels depends on the method.              *)
ToProtoAccount(c) ==
  [chain |-> FALSE,
   profile |-> IF c.chain THEN c.profile ELSE None,
   key |-> IF c.chain THEN None ELSE c.key,
   token |-> IF c.chain THEN None ELSE c.token,
   role |-> IF c.chain THEN None ELSE c.role,
   ext |-> c.ext]

(* The one account: everything that is filled in travels, keys only without  *)
(* the default chain.                                                        *)
ToProtoSingle(c) ==
  [c EXCEPT !.chain = FALSE,
            !.key = IF c.chain THEN None ELSE c.key,
            !.token = IF c.chain THEN None ELSE c.token]

(* toDomainCredentials, toDomainAWSAccounts: what is read depends on the     *)
(* method again.                                                             *)
ToDomain(method, data) ==
  CASE method = "default" ->
         [data EXCEPT !.chain = TRUE, !.key = None, !.token = None]
    [] method = "static" ->
         [data EXCEPT !.profile = None, !.role = None, !.ext = None]
    [] method = "role" -> [data EXCEPT !.profile = None]

(* The account as the provider has it.                                       *)
Received(a) ==
  IF form = "single"
    THEN [name |-> None, creds |-> ToDomain(Method(a.creds), ToProtoSingle(a.creds))]
    ELSE [name |-> a.name, creds |-> ToDomain(Method(a.creds), ToProtoAccount(a.creds))]

-----------------------------------------------------------------------------
(* validateAWSAuthConfiguration.                                             *)
Usable(c) ==
  /\ IF c.chain THEN c.key = None /\ c.token = None
                ELSE c.key # None /\ c.profile = None
  /\ c.role = None => c.ext = None

(* buildAWSLoadOptions, NewConfig, buildAssumeRoleProvider: the base         *)
(* credentials and the role assumed with them.                               *)
Identity(c) ==
  <<IF c.chain THEN "default" ELSE "static",
    IF c.chain THEN c.profile ELSE c.key, c.role, c.ext>>

(* Variants of Scope: one that leaves the role out, one that goes by the     *)
(* session token.                                                            *)
ScopeNoRole(a) ==
  <<a.name, a.creds.chain, a.creds.profile, a.creds.key, None, a.creds.ext, endpoint>>
ScopeOfToken(a) ==
  <<a.name, a.creds.chain, a.creds.profile, a.creds.token, a.creds.role,
    a.creds.ext, endpoint>>

(* resolveInternalScopeID: a digest, taken to be as good as what goes in.    *)
Scope(a) ==
  <<a.name, a.creds.chain, a.creds.profile, a.creds.key, a.creds.role,
    a.creds.ext, endpoint>>

(* routeAWSAccount: without a scope id the only account there is, with one   *)
(* an account of that scope.                                                 *)
Route(scope) ==
  IF scope = << >>
    THEN IF Cardinality(accounts) = 1 THEN {Received(a) : a \in accounts} ELSE {}
    ELSE {Received(a) : a \in {b \in accounts : Scope(Received(b)) = scope}}

-----------------------------------------------------------------------------
(* The host is configured with the accounts S.                               *)
Configure(S) ==
  /\ Cardinality(S) <= MaxAccounts
  /\ accounts' = S
  /\ form' \in IF Cardinality(S) = 1 THEN {"single", "list"} ELSE {"list"}
  /\ validated' = "unknown" /\ call' = NoCall
  /\ UNCHANGED offer

AddAccount == UNCHANGED endpoint /\ \E a \in Accounts : Configure(accounts \cup {a})
DropAccount == UNCHANGED endpoint /\ \E a \in accounts : Configure(accounts \ {a})

(* Another name, a fresh session token, a new key or role.                   *)
ChangeAccount ==
  /\ UNCHANGED endpoint
  /\ \E a \in accounts, b \in Accounts : Configure((accounts \ {a}) \cup {b})

ChangeEndpoint == endpoint' \in Endpoints /\ Configure(accounts)

(* A variant that stops at the first account whose region it may not read.   *)
ValidateConnectionFirst ==
  /\ validated = "unknown"
  /\ validated' \in {"rejected"} \cup
       (IF \E a \in accounts : Usable(Received(a).creds) THEN {"accepted"} ELSE {})
  /\ UNCHANGED <<accounts, form, endpoint, offer, call>>

(* ValidateConnection: every account in turn; one that cannot be used, or    *)
(* that STS or EC2 refuses, rejects them all.                                *)
ValidateConnection ==
  /\ validated = "unknown"
  /\ validated' \in {"rejected"} \cup
       (IF accounts # {} /\ (\A a \in accounts : Usable(Received(a).creds))
          THEN {"accepted"} ELSE {})
  /\ UNCHANGED <<accounts, form, endpoint, offer, call>>

(* WatchMarketFeed, ListActiveInstances: one of the accounts has something   *)
(* to offer.  An account that cannot be used fails the call as a whole.      *)
Offer ==
  /\ \A a \in accounts : Usable(Received(a).creds)
  /\ \E a \in accounts :
       offer' = [scope |-> Scope(Received(a)), issuer |-> Identity(Received(a).creds),
                 account |-> a, form |-> form, endpoint |-> endpoint]
  /\ call' = NoCall
  /\ UNCHANGED <<accounts, form, endpoint, validated>>

(* StartInstance, StopInstance: with the scope id of the offer, or without.  *)
Call(scope) ==
  /\ call' \in IF Route(scope) = {} THEN {Refused}
               ELSE {IF Usable(a.creds)
                       THEN [scope |-> scope, as |-> Identity(a.creds)]
                       ELSE Refused : a \in Route(scope)}
  /\ UNCHANGED <<accounts, form, endpoint, validated, offer>>

CallOffered == offer # NoOffer /\ Call(offer.scope)
CallUnscoped == Call(<< >>)

-----------------------------------------------------------------------------
AccountInit ==
  /\ accounts = {} /\ form = "list" /\ endpoint \in Endpoints
  /\ validated = "unknown"
  /\ offer = NoOffer /\ call = NoCall

AccountNext ==
  \/ AddAccount \/ DropAccount \/ ChangeAccount \/ ChangeEndpoint
  \/ ValidateConnection \/ Offer \/ CallOffered \/ CallUnscoped
AccountSpec == AccountInit /\ [][AccountNext]_accountVars

Identities == {"default", "static"} \X Texts \X Texts \X Texts
Scopes == Texts \X BOOLEAN \X Texts \X Texts \X Texts \X Texts \X Endpoints
Offers == [scope: Scopes, issuer: Identities, account: Accounts,
           form: {"single", "list"}, endpoint: Endpoints]

(* Every variable has its type.                                              *)
AccountTypeOK ==
  /\ accounts \subseteq Accounts
  /\ form \in {"single", "list"} /\ endpoint \in Endpoints
  /\ validated \in {"unknown", "accepted", "rejected"}
  /\ offer = NoOffer \/ offer \in Offers
  /\ call \in {NoCall, Refused} \/ call.as \in Identities

-----------------------------------------------------------------------------
(* A StartInstance or StopInstance with the scope id of an offering or an    *)
(* instance acts as the identity that saw it, or not at all, whatever the    *)
(* host did to its accounts in between (resolveInternalScopeID).             *)
ReachesIssuer ==
  call # NoCall /\ call # Refused /\ call.scope # << >> => call.as = offer.issuer

(* The same but for a session token; the one account alone has no name.      *)
SameAccount(a, b) ==
  /\ [a.creds EXCEPT !.token = None] = [b.creds EXCEPT !.token = None]
  /\ form = "single" \/ a.name = b.name

(* The scope id of an offering or an instance goes on to be known for as     *)
(* long as its account is configured, though its session token be renewed    *)
(* and other accounts come and go.                                           *)
ScopeStaysKnown ==
  offer # NoOffer /\ form = offer.form /\ endpoint = offer.endpoint =>
    \A a \in accounts :
      SameAccount(a, offer.account) => Route(offer.scope) # {}

(* After ValidateConnection has accepted the accounts, no call is refused    *)
(* for want of usable credentials, whichever account it is routed to.        *)
AcceptedIsUsable ==
  validated = "accepted" =>
    accounts # {} /\ \A a \in accounts : Usable(Received(a).creds)

(* What src/internal/aws/schema.go says of role_arn under the default        *)
(* credential chain, an "Optional ARN of the IAM role to assume after        *)
(* loading the default credential chain", and of the other methods likewise: *)
(* the provider acts as what the host's account names.                       *)
IdentityArrives ==
  offer # NoOffer /\ Usable(offer.account.creds) =>
    offer.issuer = Identity(offer.account.creds)

(* It does for accounts with keys and for the account that travels alone:    *)
(* what is told from an account on one side is read back on the other.       *)
KeyedIdentityArrives ==
  /\ offer # NoOffer /\ Usable(offer.account.creds)
  /\ offer.form = "single" \/ ~offer.account.creds.chain
  => offer.issuer = Identity(offer.account.creds)
=============================================================================
