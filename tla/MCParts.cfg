SPECIFICATION Spec
CONSTANTS
\* ScamKeys
    batch_size = 2
    PeriodLength = 5
    RingLength = 5
    MaxPeriod = 4
    MaxHups = 1
    Streams = 1
\* Cam, CamMenu
    CamChannels = {c1}
    cam_delay_pmt_send = 0
    cam_interval_pmt_send = 1
    cam_reask_interval = 2
    reset_interval = 2
    max_reset_number = 2
    MaxNow = 9
    EnquiryLengths = {1, 3}
\* Monitor
    MonChannels = {c1}
    Samples <- MCSamples
    MaxLost = 5
    MaxRound = 2
    up_threshold = 80
    down_threshold = 30
    timeout_no_diff = 4
    Tunings = {0, 2}
    MaxMonNow = 12
\* Sap: the third name is too long
    SapChannels = {c1}
    sap_interval = 2
    TooLong = {3}
    MaxName = 4
    MaxSapNow = 8
\* NitPsip
    NitChannels = {1, 2, 3}
    NitVersions = {0, 1, 2}
    NitLast = 1
    NitSectionOf <- MCNitSectionOf
\* Clients
    ClientIds = {1, 2}
    ClientChannels = {1}
    ChannelPorts = {1}
    max_clients = 2
\* Hls
    HlsServices = {1, 2}
    hls_rotate_time = 1
    hls_rotate_count = 2
    hls_rotate_iframe = TRUE
    playlist_ignore_dead = FALSE
    MaxHlsNow = 5
\* SdtRewrite, EitRewrite, PmtRewrite
    SdtChannels = {1, 2}
    SdtVersions = {0, 1}
    LastSection = 1
    SectionOf <- MCSectionOf
    EitChannels = {1, 2}
    Tables <- MCTables
    Keys <- MCKeys
    EitVersions = {0, 1}
    EitLast <- MCEitLast
    PmtChannels = {1, 2}
    PmtVersions = {0, 1}
    PartsOf <- MCPartsOf
\* Lifecycle
    Configs <- MCConfigs
\* Datagrams: three packets in one, two with the RTP header
    MaxPackets = 8
    TS_PACKET_SIZE = 2
    RTP_HEADER_LEN = 1
    MAX_UDP_SIZE = 7
    SequenceNumbers = 2
CHECK_DEADLOCK FALSE
INVARIANTS
    
    MonitorHonest
    AnnouncedRight
    ClientsAgree
    
    
    
