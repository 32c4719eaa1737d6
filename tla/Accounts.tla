------------------------------- MODULE Accounts -------------------------------
(***************************************************************************)
(* Who signs in as whom (modules/users/oauth.go, pages/login, controllers/ *)
(* auth): a provider names an identity, which has an account, or is linked *)
(* to the account its verified e-mail address leads to, or gets a new one; *)
(* others register with a password, and an owner may change his address.   *)
(* One statement is one step, and any of them may fail; only the pair of   *)
(* provider and identity is unique in the table.  In the web flow a cookie *)
(* carries the state a provider has to send back.                          *)
(*                                                                         *)
(* A person has one password.  Names and pictures are left out, and so are *)
(* the sessions that begin here, which are those of Sessions.              *)
(***************************************************************************)
EXTENDS Naturals, Sequences, FiniteSets

CONSTANTS
  Identities, EmailOf,  \* what providers say: the address of each identity,
  Verified,             \* and whose address they vouch for
  Emails, Owners,       \* addresses, and people who use passwords
  Browsers, States,     \* bound: states ever made
  Signers,              \* goroutines
  MaxAccounts           \* bound: rows ever made

NoIdentity == "none"
NoOwner == "nobody"
NoEmail == "no address"
NoState == 0

ASSUME AccountsAssumption ==
  /\ EmailOf \in [Identities -> Emails] /\ Verified \subseteq Identities
  /\ NoIdentity \notin Identities /\ NoOwner \notin Owners /\ NoEmail \notin Emails
  /\ Owners \cap Identities = {} /\ IsFiniteSet(Signers)
  /\ States \in Nat /\ MaxAccounts \in Nat

VARIABLES
  accounts,  \* the users table: [email, identity, password, joined]
  signer,    \* what each goroutine is at
  cookie,    \* oauth_state of each browser
  states,    \* states made so far
  consents,  \* redirects of a provider on their way back: [state, by, who]
  answers    \* history: <<identity, account>> for every sign-in that worked

accountsVars == <<accounts, signer, cookie, states, consents, answers>>

Away == [at |-> "idle"]
NoAccount == 0
Rows == 1..Len(accounts)
WithIdentity(i) == {r \in Rows : accounts[r].identity = i}
WithEmail(e) == {r \in Rows : accounts[r].email = e}

AccountsInit ==
  /\ accounts = <<>> /\ signer = [x \in Signers |-> Away]
  /\ cookie = [b \in Browsers |-> NoState] /\ states = 0 /\ consents = {}
  /\ answers = {}

Signs(x, s) == signer' = [signer EXCEPT ![x] = s]
Keep == UNCHANGED <<cookie, states, consents>>

-----------------------------------------------------------------------------
(* startOAuth: a fresh state for the browser, in place of the last one.     *)
StartOAuth(b, i) ==
  /\ states < States /\ states' = states + 1
  /\ cookie' = [cookie EXCEPT ![b] = states + 1]
  /\ consents' = consents \cup {[state |-> states + 1, by |-> b, who |-> i]}
  /\ UNCHANGED <<accounts, signer, answers>>

(* Mutant: any state will do where there is a cookie.                       *)
AnyState(b, c) == cookie[b] # NoState
CheckStateCookie(b, c) == cookie[b] # NoState /\ c.state = cookie[b]

(* completeOAuth, in whichever browser the redirect is opened.  The cookie  *)
(* goes, whether it matched or not, and a code is exchanged once.           *)
CompleteOAuth(x, b, c) ==
  /\ signer[x] = Away /\ c \in consents
  /\ cookie' = [cookie EXCEPT ![b] = NoState]
  /\ IF CheckStateCookie(b, c)
     THEN /\ Signs(x, [at |-> "match", who |-> c.who, client |-> FALSE, from |-> c.by, to |-> b, row |-> NoAccount])
          /\ consents' = consents \ {c}
     ELSE UNCHANGED <<signer, consents>>
  /\ UNCHANGED <<accounts, states, answers>>

(* ProviderLoginWithToken and GoogleIDTokenLogin: a client that holds a     *)
(* token, one that external_config knows or not.                            *)
TokenLogin(x, i, client) ==
  /\ signer[x] = Away
  /\ Signs(x, [at |-> "match", who |-> i, client |-> client, from |-> "app", to |-> "app",
               row |-> NoAccount])
  /\ Keep /\ UNCHANGED <<accounts, answers>>

-----------------------------------------------------------------------------
(* findOrCreateOAuthUser.  A SELECT that fails counts as one that finds     *)
(* nothing.                                                                 *)
Match(x, fails) ==
  LET s == signer[x]
      found == WithIdentity(s.who)
  IN  /\ s.at = "match"
      /\ IF found # {} /\ ~fails
         THEN \E r \in found : Signs(x, [s EXCEPT !.at = "join", !.row = r])
         ELSE Signs(x, [s EXCEPT !.at = IF s.who \in Verified THEN "byemail" ELSE "insert"])
      /\ Keep /\ UNCHANGED <<accounts, answers>>

(* Mutant: an account with a password is linked as well.                    *)
OnlyUnlinked(r) == accounts[r].identity = NoIdentity
Linkable(r) == accounts[r].identity = NoIdentity /\ accounts[r].password = NoOwner

FindByEmail(x, fails) ==
  LET s == signer[x]
      found == WithEmail(EmailOf[s.who])
  IN  /\ s.at = "byemail"
      /\ IF found = {} \/ fails THEN Signs(x, [s EXCEPT !.at = "insert"])
         ELSE \E r \in found :
                Signs(x, IF Linkable(r) THEN [s EXCEPT !.at = "link", !.row = r] ELSE Away)
      /\ Keep /\ UNCHANGED <<accounts, answers>>

(* The link is written, or the statement fails, which nobody looks at.      *)
Link(x, fails) ==
  LET s == signer[x]
  IN  /\ s.at = "link"
      /\ accounts' = IF fails \/ WithIdentity(s.who) # {} THEN accounts
                     ELSE [accounts EXCEPT ![s.row].identity = s.who]
      /\ Signs(x, [s EXCEPT !.at = "join"])
      /\ Keep /\ UNCHANGED answers

NewAccount(email, identity, password, joined) ==
  [email |-> email, identity |-> identity, password |-> password, joined |-> joined]

Insert(x, fails) ==
  LET s == signer[x]
      row == NewAccount(IF s.who \in Verified THEN EmailOf[s.who] ELSE NoEmail, s.who, NoOwner, s.client)
  IN  /\ s.at = "insert"
      /\ IF fails \/ WithIdentity(s.who) # {} \/ Len(accounts) = MaxAccounts
         THEN Signs(x, Away) /\ UNCHANGED accounts
         ELSE /\ accounts' = Append(accounts, row)
              /\ Signs(x, [s EXCEPT !.at = "join", !.row = Len(accounts) + 1])
      /\ Keep /\ UNCHANGED answers

(* ensureGroup for a client of external_config, and the session.            *)
Join(x, fails) ==
  LET s == signer[x]
  IN  /\ s.at = "join"
      /\ accounts' = IF s.client /\ ~fails THEN [accounts EXCEPT ![s.row].joined = TRUE] ELSE accounts
      /\ answers' = answers \cup {[who |-> s.who, row |-> s.row, from |-> s.from, to |-> s.to, client |-> s.client]}
      /\ Signs(x, Away) /\ Keep

-----------------------------------------------------------------------------
(* Register; a lookup that fails finds nobody.                              *)
Register(x, p, e, fails) ==
  /\ signer[x] = Away
  /\ Signs(x, IF WithEmail(e) # {} /\ ~fails THEN Away ELSE [at |-> "register", who |-> p, email |-> e])
  /\ Keep /\ UNCHANGED <<accounts, answers>>

InsertRegistered(x) ==
  LET s == signer[x]
  IN  /\ s.at = "register"
      /\ accounts' = IF Len(accounts) = MaxAccounts THEN accounts
                     ELSE Append(accounts, NewAccount(s.email, NoIdentity, s.who, FALSE))
      /\ Signs(x, Away) /\ Keep /\ UNCHANGED answers

(* Login with a password: whichever row with the address comes first.       *)
Login(p, e) ==
  /\ \E r \in WithEmail(e) :
       /\ accounts[r].password = p
       /\ answers' = answers \cup {[who |-> p, row |-> r, from |-> "app", to |-> "app", client |-> FALSE]}
  /\ Keep /\ UNCHANGED <<accounts, signer>>

(* The profile page's change of address; here an error ends it.             *)
ChangeEmail(x, r, e) ==
  /\ signer[x] = Away /\ r \in Rows /\ accounts[r].email # e
  /\ WithEmail(e) \ {r} = {}
  /\ Signs(x, [at |-> "change", row |-> r, email |-> e])
  /\ Keep /\ UNCHANGED <<accounts, answers>>

WriteEmail(x) ==
  LET s == signer[x]
  IN  /\ s.at = "change"
      /\ accounts' = [accounts EXCEPT ![s.row].email = s.email]
      /\ Signs(x, Away) /\ Keep /\ UNCHANGED answers

-----------------------------------------------------------------------------
SignerStep(x, fails) ==
  Match(x, fails) \/ FindByEmail(x, fails) \/ Link(x, fails) \/ Insert(x, fails) \/ Join(x, fails)

(* An account has an identity or a password, and an identity one account.   *)
OneWayIn ==
  /\ \A r \in Rows : accounts[r].identity = NoIdentity \/ accounts[r].password = NoOwner
  /\ \A i \in Identities : Cardinality(WithIdentity(i)) <= 1

(* Nobody is answered with an account that another registered.              *)
OwnAccounts ==
  \A a \in answers : accounts[a.row].password \in {NoOwner, a.who}

(* Who comes back from a provider is signed in where he set out.            *)
SameBrowser == \A a \in answers : a.from = a.to

(* With one goroutine at a time and no failures: an address leads to one    *)
(* account, an identity to one account whenever it is used, and a client of *)
(* external_config into its group.                                          *)
OnePerEmail == \A e \in Emails : Cardinality(WithEmail(e)) <= 1
SameAccount == \A a, b \in answers : a.who = b.who /\ a.who \in Identities => a.row = b.row
ClientsJoined == \A a \in answers : a.client => accounts[a.row].joined
=============================================================================
