SPECIFICATION Spec
CONSTANTS
    Byte = 2
    Align = 4
    FLASHP_BASE = 1
    BOOTP_BASE = 5
    FLASHV_BASE = 8
    BOOTV_BASE = 12
    FLASH_BYTES = 3
    BOOT_BYTES = 2
    MaxSrec = 2
    MaxHex = 3
    Room = 2
    SrecAddresses = {1}
    HexAddresses = {0, 1}
    MaxLines = 3
    blocksz = 4
CHECK_DEADLOCK FALSE
INVARIANTS
    TypeOK
    ImageIsMeaning
    ReadCovers
PROPERTIES
    ReadEnds
