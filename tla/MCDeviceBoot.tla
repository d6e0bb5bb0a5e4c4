----------------------------- MODULE MCDeviceBoot -----------------------------
EXTENDS DeviceBoot

MCRetrySettings == {-3, 0, 1, 2}

MCSdCard == {<<"pci", "sd">>}

Image(path) == [path |-> path, valid |-> TRUE]

MCImages ==
  { Image(<<"pci", "nvme", "file">>),
    Image(<<"pci", "sd">>),
    Image(<<"pci", "sd", "partition", "file">>),
    Image(<<"pci", "usb", "usb", "file">>),
    Image(<<>>),
    [path |-> <<"pci", "broken">>, valid |-> FALSE] }
=============================================================================
