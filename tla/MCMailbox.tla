------------------------------ MODULE MCMailbox ------------------------------
(* One mailbox of every kind for TLC, with an event of each QoS class and    *)
(* each payload kind.                                                        *)
EXTENDS Mailbox, TLC

MCEvents == {"cmd", "tick", "frame", "view"}
MCEventKind == [e \in MCEvents |-> CASE e = "tick" -> "INLINE"
                                     [] e = "view" -> "STREAM_VIEW"
                                     [] OTHER -> "LEASE"]
MCEventQos == [e \in MCEvents |-> CASE e = "tick" -> "COALESCED"
                                    [] e = "frame" -> "LATEST_ONLY"
                                    [] OTHER -> "CRITICAL"]
Perms == Permutations(Payloads)

=============================================================================
