------------------------------ MODULE Credentials ------------------------------
(***************************************************************************)
(* One user's e-mail addresses, recovery codes, OAuth grants and token     *)
(* pairs, API tokens and wizard hashes.  Addresses, authenticators, API    *)
(* tokens and refresh tokens are rows, everything else is in the cache.    *)
(* A slot of calls is a request; every await of it that another request    *)
(* can notice is a step.  Pair n is access token n with refresh token n.   *)
(***************************************************************************)
EXTENDS Naturals, FiniteSets

CONSTANTS
  Addresses, Hashes,
  MaxSeeds,     \* bound: previews of recovery codes
  MaxGrants,    \* bound: consents
  MaxPairs,     \* bound: token pairs issued
  MaxTokens,    \* bound: API tokens
  Slots         \* bound: requests at a time

ASSUME CredBounds == {MaxSeeds, MaxGrants, MaxPairs, MaxTokens} \subseteq Nat

VARIABLES
  email,    \* address -> "none", "unverified", "verified", "primary"
  seed,     \* cache users:recovery-seed:<user>; 0 is a miss
  seeds,    \* previews so far
  codes,    \* seed of the stored authenticator; 0: no row
  held,     \* history: seeds whose confirmation was answered 204, since one
            \*   was that stored them last
  grants,   \* cache oauth_grant:<code>
  consents, \* codes so far
  access,   \* cache oauth_access:<digest>
  refresh,  \* pair -> "none", "live", "revoked"
  tokens,   \* APIToken rows: id -> scope
  wizard,   \* cache: hash -> "none", "empty", or the API token stored
  issued,   \* history: <<"grant" or "renew", code or pair, pair issued for it>>
  raced,    \* history: the codes and pairs two requests exchanged at once
  calls,    \* the requests in progress
  crashed   \* the request a process died in, where it died

credVars == <<email, seed, seeds, codes, held, grants, consents, access, refresh,
              tokens, wizard, issued, raced, calls, crashed>>
mailVars  == email
codeVars  == <<seed, seeds, codes, held>>
oauthVars == <<grants, consents, access, refresh, issued, raced>>
toolVars  == <<tokens, wizard>>

Free == [op |-> "free", at |-> 0, of |-> 0]
Call(op, at, of) == [op |-> op, at |-> at, of |-> of]

CredInit ==
  /\ email \in [Addresses -> {"none", "primary"}]
  /\ Cardinality({ a \in Addresses : email[a] = "primary" }) = 1
  /\ seed = 0 /\ seeds = 0 /\ codes = 0 /\ held = {}
  /\ grants = {} /\ consents = 0 /\ access = {} /\ refresh = [n \in 1..MaxPairs |-> "none"]
  /\ tokens = [n \in 1..MaxTokens |-> "none"] /\ wizard = [h \in Hashes |-> "none"]
  /\ issued = {} /\ raced = {} /\ calls = [j \in Slots |-> Free] /\ crashed = {}

Begin(j, call) == calls[j] = Free /\ calls' = [calls EXCEPT ![j] = call] /\ UNCHANGED crashed
At(j, op, at)  == calls[j].op = op /\ calls[j].at = at
GoTo(j, at)    == calls' = [calls EXCEPT ![j].at = at] /\ UNCHANGED crashed
Done(j)        == calls' = [calls EXCEPT ![j] = Free] /\ UNCHANGED crashed
Atomic(j)        == calls[j] = Free /\ UNCHANGED <<calls, crashed>>
--------------------------------------------------------------------------------
\* E-mail addresses.  ConfirmEmail is allauth's link.
create_email(j, a) ==
  /\ Atomic(j) /\ email[a] = "none" /\ email' = [email EXCEPT ![a] = "unverified"]
  /\ UNCHANGED <<codeVars, oauthVars, toolVars>>
ConfirmEmail(j, a) ==
  /\ Atomic(j) /\ email[a] = "unverified" /\ email' = [email EXCEPT ![a] = "verified"]
  /\ UNCHANGED <<codeVars, oauthVars, toolVars>>
delete_email(j, a) ==
  /\ Atomic(j) /\ email[a] \in {"unverified", "verified"} /\ email' = [email EXCEPT ![a] = "none"]
  /\ UNCHANGED <<codeVars, oauthVars, toolVars>>
\* Every address loses the mark, then the one asked for gets it: an update of
\* one column, which finds no row when the address was deleted meanwhile and is
\* refused when another request marked one first.
Primaries == { a \in Addresses : email[a] = "primary" }
set_email_as_primary(j, a) ==
  /\ email[a] \in {"verified", "primary"} /\ Begin(j, Call("primary", 1, a))
  /\ email' = [b \in Addresses |-> IF email[b] = "primary" THEN "verified" ELSE email[b]]
  /\ UNCHANGED <<codeVars, oauthVars, toolVars>>
MarkPrimary(j) ==
  /\ At(j, "primary", 1) /\ Done(j)
  /\ LET a == calls[j].of IN
     email' = IF email[a] = "none" \/ Primaries # {} THEN email
              ELSE [email EXCEPT ![a] = "primary"]
  /\ UNCHANGED <<codeVars, oauthVars, toolVars>>
--------------------------------------------------------------------------------
\* Recovery codes: preview, then confirm with one of the previewed codes.
generate_recovery_codes(j) ==
  /\ Atomic(j) /\ seeds < MaxSeeds /\ seeds' = seeds + 1 /\ seed' = seeds + 1
  /\ UNCHANGED <<codes, held, mailVars, oauthVars, toolVars>>
set_recovery_codes(j) ==
  /\ seed # 0 /\ Begin(j, Call("codes", 1, seed))
  /\ UNCHANGED <<mailVars, codeVars, oauthVars, toolVars>>
DeleteCodes(j) ==
  /\ At(j, "codes", 1) /\ GoTo(j, 2) /\ codes' = 0
  /\ UNCHANGED <<seed, seeds, held, mailVars, oauthVars, toolVars>>
\* Refused when another confirm stored its row first.
ActivateCodes(j) ==
  /\ At(j, "codes", 2)
  /\ \/ codes = 0 /\ codes' = calls[j].of /\ GoTo(j, 3)
     \/ codes # 0 /\ UNCHANGED codes /\ Done(j)
  /\ UNCHANGED <<seed, seeds, held, mailVars, oauthVars, toolVars>>
ForgetSeed(j) ==
  /\ At(j, "codes", 3) /\ Done(j) /\ seed' = 0
  /\ LET s == calls[j].of IN held' = IF codes = s THEN {s} ELSE held \cup {s}
  /\ UNCHANGED <<seeds, codes, mailVars, oauthVars, toolVars>>
--------------------------------------------------------------------------------
\* OAuth.  The consent page stores a grant under a fresh code.
oauth_consent(j) ==
  /\ Atomic(j) /\ consents < MaxGrants /\ consents' = consents + 1
  /\ grants' = grants \cup {consents + 1}
  /\ UNCHANGED <<access, refresh, issued, raced, mailVars, codeVars, toolVars>>
Pairs == { n \in 1..MaxPairs : refresh[n] # "none" } \cup access
             \cup { calls[j].of : j \in { i \in Slots : calls[i].op = "pair" } }
Fresh == { n \in 1..MaxPairs : n \notin Pairs /\ \A m \in 1..(n - 1) : m \in Pairs }

\* Whether another request is exchanging the same code or refresh token.
Meets(op, of) ==
  raced' = IF \E i \in Slots : calls[i].op = op /\ calls[i].of = of
           THEN raced \cup {<<op, of>>} ELSE raced
\* The request goes on to issue a fresh pair.
Issue(j) ==
  \E n \in Fresh : /\ calls' = [calls EXCEPT ![j] = Call("pair", 1, n)]
                   /\ issued' = issued \cup {<<calls[j].op, calls[j].of, n>>}

\* load_authorization_code and the read of the grant; it is deleted afterwards.
exchange_authorization_code(j, c) ==
  /\ c \in grants /\ Begin(j, Call("grant", 1, c)) /\ Meets("grant", c)
  /\ UNCHANGED <<grants, consents, access, refresh, issued, mailVars, codeVars, toolVars>>
DeleteGrant(j) ==
  /\ At(j, "grant", 1) /\ grants' = grants \ {calls[j].of} /\ Issue(j)
  /\ UNCHANGED <<crashed, consents, access, refresh, raced, mailVars, codeVars, toolVars>>
\* The access token is cached, then the refresh token is stored.
CacheAccess(j) ==
  /\ At(j, "pair", 1) /\ GoTo(j, 2) /\ access' = access \cup {calls[j].of}
  /\ UNCHANGED <<grants, consents, refresh, issued, raced, mailVars, codeVars, toolVars>>
StoreRefresh(j) ==
  /\ At(j, "pair", 2) /\ Done(j) /\ refresh' = [refresh EXCEPT ![calls[j].of] = "live"]
  /\ UNCHANGED <<grants, consents, access, issued, raced, mailVars, codeVars, toolVars>>

\* load_refresh_token and the second look-up by exchange_refresh_token.
exchange_refresh_token(j, n) ==
  /\ refresh[n] = "live" /\ Begin(j, Call("renew", 1, n)) /\ Meets("renew", n)
  /\ UNCHANGED <<grants, consents, access, refresh, issued, mailVars, codeVars, toolVars>>
RevokeOld(j) ==
  /\ calls[j].op \in {"renew", "revoke"} /\ calls[j].at = 1 /\ GoTo(j, 2)
  /\ refresh' = [refresh EXCEPT ![calls[j].of] = "revoked"]
  /\ UNCHANGED <<grants, consents, access, issued, raced, mailVars, codeVars, toolVars>>
\* Mutant of DropOldAccess: the access token stays in the cache.
KeepOldAccess(j) ==
  /\ \/ At(j, "revoke", 2) /\ calls' = [calls EXCEPT ![j] = Free] /\ UNCHANGED issued
     \/ At(j, "renew", 2) /\ Issue(j)
  /\ UNCHANGED <<crashed, grants, consents, access, refresh, raced, mailVars, codeVars, toolVars>>
\* exchange_refresh_token goes on to issue a pair.
DropOldAccess(j) ==
  /\ access' = access \ {calls[j].of}
  /\ \/ At(j, "revoke", 2) /\ Done(j) /\ UNCHANGED issued
     \/ At(j, "renew", 2) /\ Issue(j) /\ UNCHANGED crashed
  /\ UNCHANGED <<grants, consents, refresh, raced, mailVars, codeVars, toolVars>>

\* revoke_token with either half of a pair the client was given.
RevokeRefresh(j, n) ==
  /\ refresh[n] = "live" /\ Begin(j, Call("revoke", 1, n))
  /\ UNCHANGED <<mailVars, codeVars, oauthVars, toolVars>>
RevokeAccess(j, n) ==
  /\ n \in access /\ refresh[n] # "none" /\ Begin(j, Call("dead", 1, n))
  /\ access' = access \ {n}
  /\ UNCHANGED <<grants, consents, refresh, issued, raced, mailVars, codeVars, toolVars>>
RevokePaired(j) ==
  /\ At(j, "dead", 1) /\ Done(j)
  /\ refresh' = [refresh EXCEPT ![calls[j].of] = IF @ = "live" THEN "revoked" ELSE @]
  /\ UNCHANGED <<grants, consents, access, issued, raced, mailVars, codeVars, toolVars>>
--------------------------------------------------------------------------------
\* API tokens and the wizard, which hands one over under a hash.
create_api_token(j, n, scope) ==
  /\ Atomic(j) /\ tokens[n] = "none" /\ tokens' = [tokens EXCEPT ![n] = scope]
  /\ UNCHANGED <<wizard, mailVars, codeVars, oauthVars>>
delete_api_token(j, n) ==
  /\ Atomic(j) /\ tokens[n] # "none" /\ tokens' = [tokens EXCEPT ![n] = "none"]
  /\ UNCHANGED <<wizard, mailVars, codeVars, oauthVars>>
setup_wizard(j, h) ==
  /\ Atomic(j) /\ wizard[h] = "none" /\ wizard' = [wizard EXCEPT ![h] = "empty"]
  /\ UNCHANGED <<tokens, mailVars, codeVars, oauthVars>>
setup_wizard_delete(j, h) ==
  /\ Atomic(j) /\ wizard[h] # "none" /\ wizard' = [wizard EXCEPT ![h] = "none"]
  /\ UNCHANGED <<tokens, mailVars, codeVars, oauthVars>>
\* Finds or creates a token for releases alone; storing it brings back a hash
\* that was deleted or expired meanwhile.
setup_wizard_set_token(j, h, n) ==
  /\ wizard[h] # "none" /\ Begin(j, Call("wizard", n, h))
  /\ LET have == { m \in 1..MaxTokens : tokens[m] = "project:releases" } IN
     \/ n \in have /\ UNCHANGED tokens
     \/ have = {} /\ tokens[n] = "none" /\ tokens' = [tokens EXCEPT ![n] = "project:releases"]
  /\ UNCHANGED <<wizard, mailVars, codeVars, oauthVars>>
StoreWizard(j) ==
  /\ calls[j].op = "wizard" /\ Done(j)
  /\ wizard' = [wizard EXCEPT ![calls[j].of] = "token"]
  /\ UNCHANGED <<tokens, mailVars, codeVars, oauthVars>>
--------------------------------------------------------------------------------
\* Entries leave the cache when their time is up.
ExpireSeed ==
  seed # 0 /\ seed' = 0 /\ UNCHANGED <<seeds, codes, held, mailVars, oauthVars, toolVars, calls, crashed>>
ExpireOAuth ==
  /\ \/ \E c \in grants : grants' = grants \ {c} /\ UNCHANGED access
     \/ \E n \in access : access' = access \ {n} /\ UNCHANGED grants
  /\ UNCHANGED <<consents, refresh, issued, raced, mailVars, codeVars, toolVars, calls, crashed>>
ExpireHash(h) ==
  /\ wizard[h] # "none" /\ wizard' = [wizard EXCEPT ![h] = "none"]
  /\ UNCHANGED <<tokens, mailVars, codeVars, oauthVars, calls, crashed>>
Crash(j) ==
  /\ calls[j] # Free /\ crashed = {} /\ crashed' = {calls[j]} /\ calls' = [calls EXCEPT ![j] = Free]
  /\ UNCHANGED <<mailVars, codeVars, oauthVars, toolVars>>

MailNext ==
  \E j \in Slots : \/ MarkPrimary(j)
                   \/ \E a \in Addresses : \/ create_email(j, a) \/ ConfirmEmail(j, a)
                                           \/ delete_email(j, a) \/ set_email_as_primary(j, a)
CodesNext ==
  \/ \E j \in Slots : \/ generate_recovery_codes(j) \/ set_recovery_codes(j)
                      \/ DeleteCodes(j) \/ ActivateCodes(j) \/ ForgetSeed(j)
  \/ ExpireSeed
OAuthNext ==
  \/ \E j \in Slots :
       \/ oauth_consent(j) \/ DeleteGrant(j) \/ CacheAccess(j) \/ StoreRefresh(j)
       \/ \E c \in 1..MaxGrants : exchange_authorization_code(j, c)
       \/ \E n \in 1..MaxPairs : exchange_refresh_token(j, n) \/ RevokeRefresh(j, n) \/ RevokeAccess(j, n)
       \/ RevokeOld(j) \/ DropOldAccess(j) \/ RevokePaired(j)
  \/ ExpireOAuth
ToolsNext ==
  \/ \E j \in Slots :
       \/ \E n \in 1..MaxTokens : \/ delete_api_token(j, n)
                                  \/ \E s \in {"project:releases", "other"} : create_api_token(j, n, s)
                                  \/ \E h \in Hashes : setup_wizard_set_token(j, h, n)
       \/ \E h \in Hashes : setup_wizard(j, h) \/ setup_wizard_delete(j, h)
       \/ StoreWizard(j)
  \/ \E h \in Hashes : ExpireHash(h)
CredNext == MailNext \/ CodesNext \/ OAuthNext \/ ToolsNext \/ \E j \in Slots : Crash(j)
CredSpec == CredInit /\ [][CredNext]_credVars
--------------------------------------------------------------------------------
\* The requests that are under way, or died on it.
Requests == { calls[j] : j \in Slots } \cup crashed

\* Rotation and revocation race with each other and with themselves: a revoked
\* refresh token's access token is in the cache only while a request that
\* revoked it has still to drop it, or if one died before it did (then until it
\* expires).
RevokedPairsDie ==
  \A n \in access : refresh[n] = "revoked" =>
    \E c \in Requests : c.op \in {"renew", "revoke"} /\ c.at = 2 /\ c.of = n

\* A code or refresh token is exchanged for one pair, and a replay finds nothing,
\* unless it came while the exchange was under way.
ReplaysFindNothing ==
  \A e, f \in issued : e[1] = f[1] /\ e[2] = f[2] => e = f \/ <<e[1], e[2]>> \in raced

\* set_recovery_codes deletes the old codes before it stores the new ones, and
\* may lose the race for the insert: the codes whose confirmation was answered
\* are the stored ones until another confirmation has stored its own, or
\* deleted them and is about to, or died there.
RecoveryCodesStay ==
  held # {} =>
    \/ codes \in held
    \/ \E c \in Requests : /\ c.op = "codes"
                           /\ \/ c.at = 2 /\ codes = 0
                              \/ c.at = 3 /\ codes = c.of

\* Whatever races: a revoked token pair is dead, an exchanged one is not had
\* again, and the recovery codes a user was told are set are in force.
CredentialsHold == RevokedPairsDie /\ ReplaysFindNothing /\ RecoveryCodesStay
================================================================================
