----------------------------- MODULE MCAccounts -----------------------------
(* Small instance of Accounts and AuditLog for TLC. *)
EXTENDS Accounts, TLC

CONSTANTS client, admin, manager, p1, p2, env, ipA, ipB, junk

MCSeedUsers == << [name |-> manager, role |-> "MANAGER", password |-> env],
                  [name |-> admin, role |-> "ADMIN", password |-> None] >>

\* Behind a proxy that is trusted, and without it.
MCOrigins == { [forwarded |-> <<junk, ipA>>, remote |-> ipB] }

Text(t) == [text |-> t]
List(s) == [list |-> s]
Map(f) == [map |-> f]
\* The new address in two spellings, and a seeded one.
MCTyped == {Lower(client), [name |-> client, spelling |-> "other"], Lower(admin)}
MCBarred == {Lower(client)}

\* Secrets in a map in a list, behind the limit of a list, and in a list under a
\* sensitive key.
Inner == Map([role |-> Text("plain"), password |-> Text("secret")])
ManyItems == List(<<Text("plain"), Inner, Text("secret")>>)
MCDetails == { Map([role |-> ManyItems, password |-> ManyItems]) }
MCValues == MCDetails \cup {NoDetails, Inner, ManyItems, Text("plain"), Text("secret"), Redacted}

Symmetric == Permutations(Workers) \cup Permutations({p1, p2})
=============================================================================
