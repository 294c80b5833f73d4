-------------------------- MODULE CredentialRotation --------------------------
(* The database client and its credentials (prisma/prisma.service.ts and      *)
(* config/vault/vault.service.ts): the start of the application, and          *)
(* operations run through withRetry while Vault rotates the password.         *)
(* Credentials are their version number; the database accepts the newest.     *)
(* The start comes in two forms: the real VaultService, whose secrets are     *)
(* loaded in onApplicationBootstrap, and the end-to-end tests' stub, which    *)
(* has them from the beginning.                                               *)
EXTENDS Naturals

CONSTANTS Operations,            \* database operations in flight
          MAX_ROTATION_RETRIES,
          MaxRotations,          \* bound: rotations of the password
          NoSecrets

ASSUME RotationAssumption == MAX_ROTATION_RETRIES \in Nat

VARIABLES
    boot,       \* how far NestFactory.create and app.listen have come
    version,    \* the version Vault hands out and the database accepts
    secrets,    \* VaultService.secrets.database
    client,     \* the version PrismaService.client was built with
    op          \* operation -> where withRetry is suspended, and its variables; as
                \* history what happened while it ran: a rotation, and how often
                \* another operation put outdated credentials back

rotationVars == <<boot, version, secrets, client, op>>

IdleOp == [at |-> "idle", attempt |-> 0, using |-> 0, rotated |-> FALSE, overwritten |-> 0]

RotationInit ==
    /\ boot = "construct"
    /\ version = 1
    /\ secrets \in {NoSecrets, 1}
    /\ client = 0
    /\ op = [o \in Operations |-> IdleOp]

(* VaultService hands out no secrets before it has read them.                 *)
RequireSecrets == secrets # NoSecrets

(* Nest constructs every provider before any lifecycle hook runs; the         *)
(* constructor of PrismaService builds its client and so asks for the secrets.*)
Construct ==
    /\ boot = "construct"
    /\ IF RequireSecrets
       THEN boot' = "init" /\ client' = secrets
       ELSE boot' = "failed" /\ UNCHANGED client
    /\ UNCHANGED <<version, secrets, op>>

(* onModuleInit: the first $connect.                                          *)
ModuleInit ==
    /\ boot = "init"
    /\ boot' = IF client = version THEN "up" ELSE "failed"
    /\ UNCHANGED <<version, secrets, client, op>>

Running == boot = "up"

(* withRetry: the operation runs on whatever client is current.               *)
StartOperation(o) ==
    /\ Running
    /\ op[o].at = "idle"
    /\ op' = [op EXCEPT ![o] = [IdleOp EXCEPT !.at = "query", !.using = client]]
    /\ UNCHANGED <<boot, version, secrets, client>>

(* The answer: a result, or any error that isAuthError does not recognise --  *)
(* such as the one of a query whose client was disconnected under it.         *)
OperationEnds(o) ==
    /\ op[o].at = "query"
    /\ op' = [op EXCEPT ![o] = IdleOp]
    /\ UNCHANGED <<boot, version, secrets, client>>

(* The database refuses the password the operation's client was built with.   *)
IsAuthError(o) == op[o].using # version

AttemptsLeft(o) == op[o].attempt < MAX_ROTATION_RETRIES

(* Sleep and reconnect, or give up.                                           *)
AuthError(o) ==
    /\ op[o].at = "query"
    /\ IsAuthError(o)
    /\ op' = [op EXCEPT ![o] = IF AttemptsLeft(o)
                               THEN [op[o] EXCEPT !.at = "reconnect", !.attempt = op[o].attempt + 1]
                               ELSE [op[o] EXCEPT !.at = "failed"]]
    /\ UNCHANGED <<boot, version, secrets, client>>

(* reconnectWithNewCredentials up to Vault's reading of the secret.           *)
VaultReads(o) ==
    /\ op[o].at = "reconnect"
    /\ op' = [op EXCEPT ![o].at = "refresh", ![o].using = version]
    /\ UNCHANGED <<boot, version, secrets, client>>

(* vaultRequest rejects (HTTP status, connection or parse error): the error   *)
(* leaves withRetry from its catch block.                                     *)
VaultFails(o) ==
    /\ op[o].at = "reconnect"
    /\ op' = [op EXCEPT ![o] = IdleOp]
    /\ UNCHANGED <<boot, version, secrets, client>>

RefreshNotMerged(o) == secrets

(* refreshDatabaseSecrets: what was read replaces the cached credentials,     *)
(* also when a newer answer has overtaken it.                                 *)
RefreshedSecrets(o) == op[o].using

(* History: another operation is in flight when credentials are put back that *)
(* the database no longer accepts.                                            *)
Overwritten(p, outdated) ==
    IF outdated /\ op[p].at # "idle" THEN [op[p] EXCEPT !.overwritten = op[p].overwritten + 1] ELSE op[p]

(* The client is rebuilt from the cached secrets.                             *)
Rebuild(o) ==
    /\ op[o].at = "refresh"
    /\ secrets' = RefreshedSecrets(o)
    /\ client' = secrets'
    /\ op' = [p \in Operations |-> IF p = o THEN [op[o] EXCEPT !.at = "connect", !.using = secrets']
                                             ELSE Overwritten(p, secrets' # version)]
    /\ UNCHANGED <<boot, version>>

(* $connect: on success the operation is retried on the current client; its   *)
(* failure is thrown from the catch block and not retried.                    *)
Connect(o) ==
    /\ op[o].at = "connect"
    /\ op' = [op EXCEPT ![o].at = IF op[o].using = version THEN "query" ELSE "failed",
                        ![o].using = client]
    /\ UNCHANGED <<boot, version, secrets, client>>

ReportFailure(o) ==
    /\ op[o].at = "failed"
    /\ op' = [op EXCEPT ![o] = IdleOp]
    /\ UNCHANGED <<boot, version, secrets, client>>

(* Vault issues a new password and revokes the old one.                       *)
Rotate ==
    /\ version <= MaxRotations
    /\ version' = version + 1
    /\ op' = [o \in Operations |-> [op[o] EXCEPT !.rotated = op[o].at # "idle"]]
    /\ UNCHANGED <<boot, secrets, client>>

RotationNext ==
    \/ Construct \/ ModuleInit \/ Rotate
    \/ \E o \in Operations : \/ StartOperation(o) \/ OperationEnds(o) \/ AuthError(o)
                             \/ VaultReads(o) \/ VaultFails(o) \/ Rebuild(o) \/ Connect(o)
                             \/ ReportFailure(o)

RotationTypeOK ==
    /\ boot \in {"construct", "init", "up", "failed"}
    /\ secrets \in {NoSecrets} \cup 1 .. version
    /\ client \in 0 .. version
    /\ op \in [Operations -> [at : {"idle", "query", "reconnect", "refresh", "connect", "failed"},
                              attempt : 0 .. MAX_ROTATION_RETRIES, using : 0 .. version,
                              rotated : BOOLEAN, overwritten : Nat]]

-----------------------------------------------------------------------------
(* An operation fails for its credentials only when the password was rotated  *)
(* while it ran, or when others put outdated credentials back as often as it  *)
(* could retry: the one that finds an outdated client recovers, however the   *)
(* reconnections of other operations interleave with its own (withRetry,      *)
(* reconnectWithNewCredentials).                                              *)
OnlyRotationFailsAuth ==
    \A o \in Operations :
        op[o].at = "failed" => op[o].rotated \/ op[o].overwritten >= MAX_ROTATION_RETRIES
=============================================================================
