---------------------------- MODULE MCApiGateway ----------------------------
EXTENDS ApiGateway, TLC

CONSTANTS k1, k2, user, r1, r2, r3, m1, m2

MCOwnerOf == k1 :> user @@ k2 :> user
MCUserCap == user :> 2
MCRequestQuota == k1 :> 2 @@ k2 :> 0
MCCaps == k1 :> {0} @@ k2 :> {0}
MCQuotas == k1 :> {0, 1} @@ k2 :> {0}

MCKeyOf == r1 :> k1 @@ r2 :> k1 @@ r3 :> k2
MCModelOf == r1 :> m1 @@ r2 :> m2 @@ r3 :> Pool

(* The second model is served by one of the two endpoints only.               *)
MCServes == m1 :> {1, 2} @@ m2 :> {2}
MCEndpointKeys == 1 :> {1} @@ 2 :> {2, 3}
=============================================================================
