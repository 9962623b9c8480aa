CONSTANTS
  p1 = p1
  p2 = p2
  t1 = t1
  t2 = t2
  Peers = {p1}
  Self = self
  Topics = {t1}
  N = 2
  ShardOfPeer <- MCShardOfPeer
  ShardOfTopic <- MCShardOfTopic
  Inputs = {"advertise", "return", "clean"}
SPECIFICATION Spec
INVARIANT AnnouncedIsListed
