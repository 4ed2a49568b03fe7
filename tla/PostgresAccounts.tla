-------------------------- MODULE PostgresAccounts --------------------------
(***************************************************************************)
(* The account functions of the PostgreSQL store: the statements of each,  *)
(* in their order, with the rows each one locks.                           *)
(***************************************************************************)
EXTENDS AccountStore, SqlStatements

\* The user, its TOTP secret and its recovery codes.
InsertLocalUser(c, role) ==
  <<Insert("users", LocalUser(c, role), {}),
    Insert("totp", NewTOTP(c), {<<"users", c.user>>}),
    Insert("codes", NewCode(c), {<<"users", c.user>>})>>

\* Two requests that set the server up take turns.
PgBootstrapAdministrator(c, got) ==
  <<AdvisoryLock("bootstrap"),
    Select("users", <<>>),
    RefuseIf(Answer(got, 2) # {})>>
  \o InsertLocalUser(c, "administrator") \o <<Audit(c)>>

\* A mutant: the administrators are counted without being locked.
PgUpdateUserAccessUnlocked(c, got) ==
  LET removesLocalAdmin ==
        /\ \E row \in Answer(got, 2) :
              row.role = "administrator" /\ row.status = "active" /\ row.local
        /\ c.role # "administrator" \/ c.status # "active"
  IN  <<Select("users", LocalAdministrator),
        Must(SelectForUpdate("users", [id |-> {c.user}])),
        RefuseIf(removesLocalAdmin /\ Cardinality(Answer(got, 1)) <= 1),
        Update("users", [id |-> {c.user}], [role |-> c.role, status |-> c.status]),
        Delete("sessions", [user |-> {c.user}]),
        Audit(c)>>

PgUpdateUserAccess(c, got) ==
  LET removesLocalAdmin ==
        /\ \E row \in Answer(got, 2) :
              row.role = "administrator" /\ row.status = "active" /\ row.local
        /\ c.role # "administrator" \/ c.status # "active"
  IN  <<SelectForUpdate("users", LocalAdministrator),
        Must(SelectForUpdate("users", [id |-> {c.user}])),
        RefuseIf(removesLocalAdmin /\ Cardinality(Answer(got, 1)) <= 1),
        Update("users", [id |-> {c.user}], [role |-> c.role, status |-> c.status]),
        Delete("sessions", [user |-> {c.user}]),
        Audit(c)>>

PgCreateInvitation(c, got) == <<Insert("invitations", NewInvitation(c), Actor(c)), Audit(c)>>

PgAcceptLocalInvitation(c, got) ==
  <<Must(Update("invitations", Acceptable(c), [accepted |-> c.by]))>>
  \o InsertLocalUser(c, c.role) \o <<Audit(c)>>

PgCreateSession(c, got) ==
  <<Insert("sessions", NewSession(c), {<<"users", c.user>>}),
    Update("users", [id |-> {c.user}], [login |-> c.by]),
    Audit(c)>>

\* A query, then a statement of its own that touches a session not seen lately.
PgSessionUser(c, got) ==
  <<Must(SelectJoin("sessions", [id |-> {c.session}], "user", "users", [status |-> {"active"}])),
    Update("sessions", [id |-> {c.session}, seen |-> {"old"}], [seen |-> "now"])>>

PgRevokeSessions(c, where) == <<Delete("sessions", where), Audit(c)>>
PgDeleteSession(c, got) == PgRevokeSessions(c, [id |-> {c.session}])
PgRevokeUserSession(c, got) ==
  PgRevokeSessions(c, [id |-> {c.session}, user |-> {c.user}])
PgRevokeOtherUserSessions(c, got) ==
  PgRevokeSessions(c, [id |-> c.sessions \ {c.session}, user |-> {c.user}])

PgUpdateSessionMFAVerifiedAt(c, got) ==
  <<Must(Update("sessions", [id |-> {c.session}, user |-> {c.user}], [mfa |-> c.by]))>>

\* The row is locked before it is counted up; without a row the advisory lock
\* keeps a second first failure out.
PgFailures(row, found) == IF found /\ row.window = "open" THEN row.failures + 1 ELSE 1
PgRecordLoginFailure(c, got) ==
  LET attempt == Attempt(c, PgFailures(TheRow(got, 2), Answer(got, 2) # {})) IN
    <<AdvisoryLock(c.key),
      SelectForUpdate("attempts", [id |-> {c.key}]),
      Upsert("attempts", attempt, attempt, {})>>

PgClearLoginFailures(c, got) ==
  [n \in DOMAIN c.keys |-> Delete("attempts", [id |-> {c.keys[n]}])]

PgConsumeTOTPCounter(c, got) ==
  <<Must(Update("totp", Spendable(c), [counter |-> c.counter]))>>
PgConsumeRecoveryCode(c, got) ==
  <<Must(Update("codes", Unused(c), [used |-> c.by])), Audit(c)>>

PgCreateAuthenticationCeremony(c, got) ==
  <<Insert("ceremonies", NewCeremony(c), Actor(c))>>
\* DELETE ... RETURNING: the row is read by the statement that removes it.
PgConsumeAuthenticationCeremony(c, got) ==
  <<Must(Delete("ceremonies", [id |-> {c.ceremony}, kind |-> {c.kind}]))>>

PgCreateWebAuthnCredential(c, got) ==
  <<Insert("passkeys", NewPasskey(c), {<<"users", c.user>>})>>
PgDeleteWebAuthnCredential(c, got) == <<Must(Delete("passkeys", Passkey(c)))>>
PgUpdateWebAuthnCredential(c, got) ==
  <<Must(Update("passkeys", Passkey(c), [count |-> c.count]))>>

PgUpsertOIDCProvider(c, got) ==
  <<Upsert("providers", Provider(c), Provider(c), {}), Audit(c)>>
PgUpdateOIDCProviderState(c, where, set) ==
  <<Must(Update("providers", where, set)), Audit(c)>>
PgMarkOIDCProviderTested(c, got) ==
  PgUpdateOIDCProviderState(c, [id |-> {c.provider}], [tested |-> TRUE])
PgSetOIDCProviderEnabled(c, got) ==
  PgUpdateOIDCProviderState(c, Switchable(c), [enabled |-> c.enabled])

\* SELECT ... FOR UPDATE OF e,u: the link, and the user it names.
PgLinkedOIDCUser(c, got) ==
  <<SelectForUpdate("links", [id |-> {c.subject}]),
    When(Answer(got, 2) # {}, SelectForUpdate("users", [id |-> {TheRow(got, 2).user}]))>>

PgUpdateLinkedOIDCUser(c, got) ==
  LET user == TheRow(got, 3) IN
    <<RefuseIf(user.status # "active"),
      When(c.mode = "jit" /\ user.role # c.role,
           Update("users", [id |-> {user.id}], [role |-> c.role])),
      Update("links", [id |-> {c.subject}], [login |-> c.by])>>

PgProvisionOIDCUser(c, got) ==
  LET byInvitation == c.mode = "invite_only"
      taken == TheRow(got, 4)
      role == IF byInvitation /\ Answer(got, 4) # {} THEN taken.role ELSE c.role
  IN  <<When(byInvitation, Must(SelectForUpdate("invitations", Invited(c)))),
        When(Answer(got, 4) # {},
             Update("invitations", [id |-> {taken.id}], [accepted |-> c.by])),
        Insert("users", OIDCUser(c, role), {}),
        Insert("links", Link(c), {<<"users", c.email>>})>>

\* Two callbacks for one subject take turns.
PgResolveOIDCUser(c, got) ==
  <<AdvisoryLock(c.subject)>> \o PgLinkedOIDCUser(c, got)
  \o (IF Len(got) < 3 THEN <<Statement>>
      ELSE IF Answer(got, 2) # {} /\ Answer(got, 3) # {} THEN PgUpdateLinkedOIDCUser(c, got)
      ELSE PgProvisionOIDCUser(c, got))
  \o <<Audit(c)>>

\* apply_audit_retention deletes what the new policy no longer keeps.
PgSaveAuthenticationPolicy(c, got) ==
  <<Upsert("metadata", Policy(c), Policy(c), {}), Delete("audit", [age |-> {"old"}]), Audit(c)>>

PgAppendAuditEvent(c, got) == <<Audit(c)>>

\* The account function a call names.
AccountProgram(c, got) ==
  CASE c.op = "BootstrapAdministrator" -> PgBootstrapAdministrator(c, got)
    [] c.op = "UpdateUserAccess" -> PgUpdateUserAccess(c, got)
    [] c.op = "CreateInvitation" -> PgCreateInvitation(c, got)
    [] c.op = "AcceptLocalInvitation" -> PgAcceptLocalInvitation(c, got)
    [] c.op = "CreateSession" -> PgCreateSession(c, got)
    [] c.op = "SessionUser" -> PgSessionUser(c, got)
    [] c.op = "DeleteSession" -> PgDeleteSession(c, got)
    [] c.op = "RevokeUserSession" -> PgRevokeUserSession(c, got)
    [] c.op = "RevokeOtherUserSessions" -> PgRevokeOtherUserSessions(c, got)
    [] c.op = "UpdateSessionMFAVerifiedAt" -> PgUpdateSessionMFAVerifiedAt(c, got)
    [] c.op = "RecordLoginFailure" -> PgRecordLoginFailure(c, got)
    [] c.op = "ClearLoginFailures" -> PgClearLoginFailures(c, got)
    [] c.op = "ConsumeTOTPCounter" -> PgConsumeTOTPCounter(c, got)
    [] c.op = "ConsumeRecoveryCode" -> PgConsumeRecoveryCode(c, got)
    [] c.op = "CreateAuthenticationCeremony" -> PgCreateAuthenticationCeremony(c, got)
    [] c.op = "ConsumeAuthenticationCeremony" -> PgConsumeAuthenticationCeremony(c, got)
    [] c.op = "CreateWebAuthnCredential" -> PgCreateWebAuthnCredential(c, got)
    [] c.op = "DeleteWebAuthnCredential" -> PgDeleteWebAuthnCredential(c, got)
    [] c.op = "UpdateWebAuthnCredential" -> PgUpdateWebAuthnCredential(c, got)
    [] c.op = "UpsertOIDCProvider" -> PgUpsertOIDCProvider(c, got)
    [] c.op = "MarkOIDCProviderTested" -> PgMarkOIDCProviderTested(c, got)
    [] c.op = "SetOIDCProviderEnabled" -> PgSetOIDCProviderEnabled(c, got)
    [] c.op = "ResolveOIDCUser" -> PgResolveOIDCUser(c, got)
    [] c.op = "SaveAuthenticationPolicy" -> PgSaveAuthenticationPolicy(c, got)
    [] c.op = "AppendAuditEvent" -> PgAppendAuditEvent(c, got)
============================================================================
