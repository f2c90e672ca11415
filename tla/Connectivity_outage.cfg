CONSTANTS
    MAX_RECONNECT_INTERVAL = 4
    MAX_RECONNECT_ATTEMPTS = 3
    ConnectTimeout = 3
    MAX_CONNECT_INTERVAL = 8
    MAX_CONNECT_ATTEMPTS = 3
SPECIFICATION Spec
INVARIANTS TypeOK ReconnectsInTime
PROPERTIES FallbackEarned BridgeRecovers
