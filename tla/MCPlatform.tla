----------------------------- MODULE MCPlatform -----------------------------
(***************************************************************************)
(* The components around the two message paths, which share no state with  *)
(* each other: in each behaviour one of them moves, the one in focus, and  *)
(* the others stay as they started.                                        *)
(***************************************************************************)
EXTENDS Handoff, AgentDesk, LineSettings, ChannelWiring, Tokens, Switches, OntologyStore,
        AppConfig, DatasetRetrieval, PromptVersions, ModelVersions, Provisioning,
        RateLimit, Ingress, Access, AuditTrail, GroundedFacts

CONSTANTS e1, e2, x1, x2, w1, p1, p2, c1, c2, r1, r2, l1, l2, a1, a2, triage, scene, ann, bob, d1, d2, q1, q2, q3, h1, h2

VARIABLE focus

Rest(v, f, next) == IF focus = f THEN next ELSE UNCHANGED v

(* A component starts where it may when it is in focus, and at one of its   *)
(* starting points otherwise.                                               *)
ConsoleInit ==
  /\ focus \in {"handoff", "desk", "line", "wiring", "token", "switch", "store",
                "app", "retrieval", "prompt", "model", "provision",
                "limit", "ingress", "access", "audit", "facts"}
  /\ HandInit /\ DeskInit /\ LineInit /\ WiringInit /\ TokenInit /\ SwitchInit /\ StoreInit
  /\ AppInit /\ (focus # "app" => advanced)
  /\ RetrievalInit /\ (focus # "retrieval" => technique = "economy")
  /\ PromptInit /\ (focus # "prompt" => live = "t1" /\ rows = <<>>)
  /\ ModelInit /\ (focus # "model" => override = [l \in Lines |-> "none"])
  /\ ProvInit
  /\ LimitInit /\ AccessInit /\ AuditInit /\ FactsInit
  /\ IngressInit /\ (focus # "ingress" => platform = "wechat" /\ \A i \in MsgIds :
                       msgs[i].type = "text" /\ msgs[i].readable /\ msgs[i].named)

ConsoleNext ==
  /\ UNCHANGED focus
  /\ Rest(handVars, "handoff", HandNext)
  /\ Rest(deskVars, "desk", DeskNext)
  /\ Rest(lineVars, "line", LineNext)
  /\ Rest(wiringVars, "wiring", WiringNext)
  /\ Rest(tokenVars, "token", TokenNext)
  /\ Rest(switchVars, "switch", SwitchNext)
  /\ Rest(storeVars, "store", StoreNext)
  /\ Rest(appVars, "app", AppNext)
  /\ Rest(retrievalVars, "retrieval", RetrievalNext)
  /\ Rest(promptVars, "prompt", PromptNext)
  /\ Rest(modelVars, "model", ModelNext)
  /\ Rest(provVars, "provision", ProvNext)
  /\ Rest(limitVars, "limit", LimitNext)
  /\ Rest(ingressVars, "ingress", IngressNext)
  /\ Rest(accessVars, "access", AccessNext)
  /\ Rest(auditVars, "audit", AuditNext)
  /\ Rest(factVars, "facts", FactsNext)

platformVars == <<focus, handVars, deskVars, lineVars, wiringVars, tokenVars, switchVars, storeVars,
                  appVars, retrievalVars, promptVars, modelVars, provVars,
                  limitVars, ingressVars, accessVars, auditVars, factVars>>
ConsoleSpec == ConsoleInit /\ [][ConsoleNext]_platformVars
=============================================================================
