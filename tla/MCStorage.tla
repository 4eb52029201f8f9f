----------------------------- MODULE MCStorage -----------------------------
(* Instances of Storage, and of TargetCall, for TLC. *)
EXTENDS TargetCall

Backup(id, colons) == [id |-> id, colons |-> colons]

Backups == <<"backups">>
Root == <<>>
LoginDir == <<"home">>

\* "backups-old" starts with "backups".
StartsWith(a, b) == a = "backups" /\ b = "backups-old"

\* Something else has put a backup into the target's directory, or into others.
Alone == {{At(Backups, Backup(1, FALSE))},
          {At(Root, Backup(1, FALSE)), At(<<"other">>, Backup(1, TRUE))}}
WithSibling == {{At(<<"backups-old">>, Backup(1, TRUE))}}
============================================================================
