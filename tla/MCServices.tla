------------------------------ MODULE MCServices ------------------------------
\* A small instance of Services for TLC.
EXTENDS Services

\* Providers with no, a free, one or two services, near, farther away, or
\* without a location.
SearchRows ==
  {r \in [prices : {{}, {0}, {2}, {1, 3}}, distance : {1, 2, Infinity}, radius : {0, 1},
          online : BOOLEAN] :
     /\ r.online => r.radius = 0 /\ r.prices \notin {{}, {0}}
     /\ r.radius = 1 => r.prices = {1, 3}
     /\ r.distance = Infinity => r.prices = {2}}
SearchQueries ==
  {q \in [kind : {"search", "near"}, radius : {0, 1, 2}, sort : {"price", "online", "distance"},
          order : {"asc", "desc"}, onlineOnly : BOOLEAN, min : {0, 3}, max : {0, 2}] :
     /\ q.sort = "distance" => q.kind = "near"
     /\ q.onlineOnly => q.min = 0 /\ q.order = "asc"
     /\ q.min = 0 => q.max = 0
     /\ q.radius = 2 => q.min = 0 /\ ~q.onlineOnly}

\* A reward of the catalogue, and a cost no catalogue has.
RewardCosts == {500, -100}

\* Every user's role is admitted somewhere; the settings differ in which
\* overrides are set and in which of the ttls is longer.
SomeUser == CHOOSE u \in People : TRUE
Settings ==
  {[ttl   |-> [base |-> 2, CUSTOMER |-> 1, PROVIDER |-> -1],
    limit |-> [base |-> 2, CUSTOMER |-> 1, PROVIDER |-> -1]],
   [ttl   |-> [base |-> 1, CUSTOMER |-> -1, PROVIDER |-> 2],
    limit |-> [base |-> 1, CUSTOMER |-> 2, PROVIDER |-> 0]]}

Roles == [u \in People |-> IF u = SomeUser THEN "CUSTOMER" ELSE "PROVIDER"]

=============================================================================
