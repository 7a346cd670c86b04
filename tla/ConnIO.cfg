\* Output, input, bridges and UDP children.
SPECIFICATION PartSpec
CONSTANTS
  Settings <- OutputSettings
  Producers = {producer}
  Turn = ioTurn
  Writer = writer
  Poller = poller
  user = user
  layer = layer
  Owners = {user, layer}
  Client = client
  Upstream = upstream
  Children = {c1, c2, c3}
  Keys = {key}
INVARIANTS IoOrdered SenderExact OutputSeenTo InputReached BridgeFlows PeersServed
