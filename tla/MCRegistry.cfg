CONSTANTS
  p1 = p1
  p2 = p2
  t1 = t1
  t2 = t2
  Peers = {p1}
  Self = self
  Topics = {t2}
  N = 2
  ShardOfPeer <- MCShardOfPeer
  ShardOfTopic <- MCShardOfTopic
  Inputs <- MCEverything
SPECIFICATION FairSpec
INVARIANTS TypeOK NoGhosts SubscriptionSurvives
PROPERTY GonePeersVanish
