---------------------------- MODULE MCIdSequence ----------------------------
(***************************************************************************)
(* Three prefixes: "tk" (tickets, enclosed callers only), "rc" (receipts,  *)
(* detached callers) and "jm" (Jain members: registerMember in a           *)
(* transaction, initMemberProfile without one). Prefixes are rows of their *)
(* own, so each workload exercises one of them.                            *)
(***************************************************************************)
EXTENDS IdSequence

CONSTANTS t1, t2, r1, r2, m1, b1, b2

MCPrefixes == {"tk", "rc", "jm"}
MCPrefixOf == [c \in Callers |-> CASE c \in {t1, t2} -> "tk"
                                   [] c \in {r1, r2} -> "rc"
                                   [] OTHER -> "jm"]
MCWorkloads == {{t1, t2}, {r1, r2}, {m1, b1}}
BareWorkloads == {{m1, b1, b2}}
=============================================================================
