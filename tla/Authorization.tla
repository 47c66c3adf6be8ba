----------------------------- MODULE Authorization -----------------------------
(***************************************************************************)
(* Which permission keys let a request pass: AuthorizationService of       *)
(* backend/src/modules/auth/application/authorization.service.ts and the   *)
(* keys of backend/src/modules/auth/domain/permissions.ts.                 *)
(*                                                                         *)
(* A key is the sequence of its parts, which colons separate.              *)
(***************************************************************************)
EXTENDS Sequences

Modules == {"auth", "backup", "database", "file", "firewall", "monitoring",
            "nginx", "system", "user"}
Actions == {"create", "delete", "execute", "manage", "read", "restore", "update"}

PermissionKey(module, action) == <<module, action>>

IsPermissionKey(key) ==
  Len(key) = 2 /\ key[1] \in Modules /\ key[2] \in Actions

DefaultPermissionKeys == {PermissionKey(m, a) : m \in Modules, a \in Actions}

\* "system:manage" grants everything, "<module>:manage" what is of its module.
HasGrantedPermission(granted, required) ==
  \/ required \in granted
  \/ PermissionKey("system", "manage") \in granted
  \/ IsPermissionKey(required) /\ PermissionKey(required[1], "manage") \in granted
=============================================================================
