\* One inbound, added, edited and edited again.
SPECIFICATION Spec
CONSTANTS
  Protocols = {"vless", "vmess", "trojan", "hysteria", "wireguard", "http"}
  Transports = {"tcp", "kcp"}
  Strategies = {"node", "listen"}
  Emails = {alice}
  None = none
INVARIANTS AlwaysParses StreamFitsProtocol
PROPERTIES ClientsKept NodeStrategyKept
