---------------------------- MODULE AccountStore ----------------------------
(***************************************************************************)
(* The account functions of the SQLite store, each as what it does to the  *)
(* database.  The SQLite store has one connection, so its functions run    *)
(* one after the other and none sees another half done: this is the        *)
(* reference the PostgreSQL store is compared with.  Users are keyed by    *)
(* their unique email, external identities by their subject.               *)
(***************************************************************************)
EXTENDS StoreRows

\* The accounts with a password that may administer the server.
LocalAdministrator ==
  [role |-> {"administrator"}, status |-> {"active"}, local |-> {TRUE}]

\* The rows of a new account with a password: the user, its TOTP secret and
\* its recovery codes.
LocalUser(c, role) ==
  [id |-> c.user, role |-> role, status |-> "active", local |-> TRUE, login |-> ""]
NewTOTP(c) == [id |-> c.user, counter |-> 0]
NewCode(c) == [id |-> c.code, user |-> c.user, used |-> ""]
WithLocalUser(d, c, role) ==
  Put(Put(Put(d, "users", LocalUser(c, role)), "totp", NewTOTP(c)), "codes", NewCode(c))

BootstrapAdministrator(c, d) ==
  Result(DOMAIN d.users = {}, d, Audited(WithLocalUser(d, c, "administrator"), c))

UpdateUserAccess(c, d) ==
  LET removesLocalAdmin ==
        /\ c.user \in Found(d, "users", LocalAdministrator)
        /\ c.role # "administrator" \/ c.status # "active"
  IN  Result(/\ c.user \in DOMAIN d.users
             /\ removesLocalAdmin => Cardinality(Found(d, "users", LocalAdministrator)) > 1,
             d,
             Audited(Deleted(Updated(d, "users", [id |-> {c.user}],
                                   [role |-> c.role, status |-> c.status]),
                            "sessions", [user |-> {c.user}]), c))

NewInvitation(c) ==
  [id |-> c.invitation, email |-> c.email, role |-> c.role, kind |-> c.kind, accepted |-> ""]
CreateInvitation(c, d) ==
  Result(Fits(d, "invitations", NewInvitation(c), Actor(c)), d,
         Audited(Put(d, "invitations", NewInvitation(c)), c))

Acceptable(c) == [id |-> {c.invitation}, accepted |-> {""}]
AcceptLocalInvitation(c, d) ==
  Result(/\ Found(d, "invitations", Acceptable(c)) # {}
         /\ Fits(d, "users", LocalUser(c, c.role), {}),
         d,
         Audited(WithLocalUser(Updated(d, "invitations", Acceptable(c), [accepted |-> c.by]),
                               c, c.role), c))

NewSession(c) == [id |-> c.session, user |-> c.user, seen |-> "old", mfa |-> c.by]
CreateSession(c, d) ==
  Result(Fits(d, "sessions", NewSession(c), {<<"users", c.user>>}), d,
         Audited(Updated(Put(d, "sessions", NewSession(c)), "users", [id |-> {c.user}],
                        [login |-> c.by]), c))

\* The request that finds its session stale enough records that it was seen.
SessionUser(c, d) ==
  LET held == Found(d, "sessions", [id |-> {c.session}])
      valid == /\ held # {}
               /\ d.users[d.sessions[c.session].user].status = "active"
  IN  Result(valid, d, Updated(d, "sessions", [id |-> {c.session}, seen |-> {"old"}],
                              [seen |-> "now"]))

\* revokeSessions: the rows one query names, and an audit event.
RevokeSessions(c, d, where) == Done(Audited(Deleted(d, "sessions", where), c))
DeleteSession(c, d) == RevokeSessions(c, d, [id |-> {c.session}])
RevokeUserSession(c, d) == RevokeSessions(c, d, [id |-> {c.session}, user |-> {c.user}])
RevokeOtherUserSessions(c, d) ==
  RevokeSessions(c, d, [id |-> DOMAIN d.sessions \ {c.session}, user |-> {c.user}])

UpdateSessionMFAVerifiedAt(c, d) ==
  LET where == [id |-> {c.session}, user |-> {c.user}] IN
    Result(Found(d, "sessions", where) # {}, d, Updated(d, "sessions", where, [mfa |-> c.by]))

\* The failures of a key inside its window, then the time it stays blocked.
Failed(d, c) ==
  LET row == d.attempts[c.key] IN
    IF c.key \in DOMAIN d.attempts /\ row.window = "open" THEN row.failures + 1 ELSE 1
Attempt(c, failures) ==
  [id |-> c.key, failures |-> failures, window |-> "open",
   blocked |-> IF failures < c.threshold THEN 0 ELSE failures - c.threshold + 1]
RecordLoginFailure(c, d) == Done(Put(d, "attempts", Attempt(c, Failed(d, c))))

ClearLoginFailures(c, d) == Done(Deleted(d, "attempts", [id |-> Range(c.keys)]))

Spendable(c) == [id |-> {c.user}, counter |-> 0 .. (c.counter - 1)]
ConsumeTOTPCounter(c, d) ==
  Result(Found(d, "totp", Spendable(c)) # {}, d,
         Updated(d, "totp", Spendable(c), [counter |-> c.counter]))

Unused(c) == [id |-> {c.code}, user |-> {c.user}, used |-> {""}]
ConsumeRecoveryCode(c, d) ==
  Result(Found(d, "codes", Unused(c)) # {}, d,
         Audited(Updated(d, "codes", Unused(c), [used |-> c.by]), c))

NewCeremony(c) == [id |-> c.ceremony, kind |-> c.kind]
CreateAuthenticationCeremony(c, d) ==
  Result(Fits(d, "ceremonies", NewCeremony(c), Actor(c)), d, Put(d, "ceremonies", NewCeremony(c)))
ConsumeAuthenticationCeremony(c, d) ==
  LET where == [id |-> {c.ceremony}, kind |-> {c.kind}] IN
    Result(Found(d, "ceremonies", where) # {}, d,
           Deleted(d, "ceremonies", [id |-> {c.ceremony}]))

NewPasskey(c) == [id |-> c.passkey, user |-> c.user, count |-> 0]
Passkey(c) == [id |-> {c.passkey}, user |-> {c.user}]
CreateWebAuthnCredential(c, d) ==
  Result(Fits(d, "passkeys", NewPasskey(c), {<<"users", c.user>>}), d,
         Put(d, "passkeys", NewPasskey(c)))
DeleteWebAuthnCredential(c, d) ==
  Result(Found(d, "passkeys", Passkey(c)) # {}, d, Deleted(d, "passkeys", Passkey(c)))
UpdateWebAuthnCredential(c, d) ==
  Result(Found(d, "passkeys", Passkey(c)) # {}, d,
         Updated(d, "passkeys", Passkey(c), [count |-> c.count]))

\* A provider that is saved again must be tested and enabled again.
Provider(c) == [id |-> c.provider, mode |-> c.mode, tested |-> FALSE, enabled |-> FALSE]
UpsertOIDCProvider(c, d) == Done(Audited(Put(d, "providers", Provider(c)), c))

UpdateOIDCProviderState(c, d, where, set) ==
  Result(Found(d, "providers", where) # {}, d, Audited(Updated(d, "providers", where, set), c))
MarkOIDCProviderTested(c, d) ==
  UpdateOIDCProviderState(c, d, [id |-> {c.provider}], [tested |-> TRUE])
Switchable(c) == [id |-> {c.provider}, tested |-> IF c.enabled THEN {TRUE} ELSE BOOLEAN]
SetOIDCProviderEnabled(c, d) ==
  UpdateOIDCProviderState(c, d, Switchable(c), [enabled |-> c.enabled])

\* The account linked to the subject is updated; the mode of the provider was
\* read before the call, with the rest of the provider.
UpdateLinkedOIDCUser(c, d) ==
  LET user == d.links[c.subject].user
      roles == IF c.mode = "jit" THEN [role |-> c.role] ELSE <<>>
  IN  Result(d.users[user].status = "active", d,
             Audited(Updated(Updated(d, "users", [id |-> {user}], roles),
                            "links", [id |-> {c.subject}], [login |-> c.by]), c))

OIDCUser(c, role) ==
  [id |-> c.email, role |-> role, status |-> "active", local |-> FALSE, login |-> ""]
Link(c) == [id |-> c.subject, user |-> c.email, login |-> c.by]
Invited(c) == [email |-> {c.email}, kind |-> {"sso"}, accepted |-> {""}]

\* A new account: by invitation, with the invitation's role, or just in time.
ProvisionOIDCUser(c, d) ==
  LET open == Rows(d, "invitations", Invited(c))
      taken == CHOOSE i \in open : TRUE
      byInvitation == c.mode = "invite_only"
      role == IF byInvitation THEN taken.role ELSE c.role
      accepted == IF byInvitation
                    THEN Updated(d, "invitations", [id |-> {taken.id}], [accepted |-> c.by])
                    ELSE d
  IN  Result(/\ byInvitation => open # {}
             /\ c.email \notin DOMAIN d.users,
             d,
             Audited(Put(Put(accepted, "users", OIDCUser(c, role)), "links", Link(c)), c))

ResolveOIDCUser(c, d) ==
  IF c.subject \in DOMAIN d.links THEN UpdateLinkedOIDCUser(c, d) ELSE ProvisionOIDCUser(c, d)

\* A new policy, and the audit events its retention drops.
Policy(c) == [id |-> "authentication", value |-> c.by]
SaveAuthenticationPolicy(c, d) ==
  Done(Audited(Deleted(Put(d, "metadata", Policy(c)), "audit", [age |-> {"old"}]), c))

AppendAuditEvent(c, d) == Done(Audited(d, c))

\* The account function a call names.
AccountCall(c, d) ==
  CASE c.op = "BootstrapAdministrator" -> BootstrapAdministrator(c, d)
    [] c.op = "UpdateUserAccess" -> UpdateUserAccess(c, d)
    [] c.op = "CreateInvitation" -> CreateInvitation(c, d)
    [] c.op = "AcceptLocalInvitation" -> AcceptLocalInvitation(c, d)
    [] c.op = "CreateSession" -> CreateSession(c, d)
    [] c.op = "SessionUser" -> SessionUser(c, d)
    [] c.op = "DeleteSession" -> DeleteSession(c, d)
    [] c.op = "RevokeUserSession" -> RevokeUserSession(c, d)
    [] c.op = "RevokeOtherUserSessions" -> RevokeOtherUserSessions(c, d)
    [] c.op = "UpdateSessionMFAVerifiedAt" -> UpdateSessionMFAVerifiedAt(c, d)
    [] c.op = "RecordLoginFailure" -> RecordLoginFailure(c, d)
    [] c.op = "ClearLoginFailures" -> ClearLoginFailures(c, d)
    [] c.op = "ConsumeTOTPCounter" -> ConsumeTOTPCounter(c, d)
    [] c.op = "ConsumeRecoveryCode" -> ConsumeRecoveryCode(c, d)
    [] c.op = "CreateAuthenticationCeremony" -> CreateAuthenticationCeremony(c, d)
    [] c.op = "ConsumeAuthenticationCeremony" -> ConsumeAuthenticationCeremony(c, d)
    [] c.op = "CreateWebAuthnCredential" -> CreateWebAuthnCredential(c, d)
    [] c.op = "DeleteWebAuthnCredential" -> DeleteWebAuthnCredential(c, d)
    [] c.op = "UpdateWebAuthnCredential" -> UpdateWebAuthnCredential(c, d)
    [] c.op = "UpsertOIDCProvider" -> UpsertOIDCProvider(c, d)
    [] c.op = "MarkOIDCProviderTested" -> MarkOIDCProviderTested(c, d)
    [] c.op = "SetOIDCProviderEnabled" -> SetOIDCProviderEnabled(c, d)
    [] c.op = "ResolveOIDCUser" -> ResolveOIDCUser(c, d)
    [] c.op = "SaveAuthenticationPolicy" -> SaveAuthenticationPolicy(c, d)
    [] c.op = "AppendAuditEvent" -> AppendAuditEvent(c, d)
============================================================================
